---- MODULE Spec2Model ----
(***************************************************************************)
(* A model of BOM2Pic's Excel image extraction                             *)
(* (src/app/utils/excel_image_extractor.py) and of its callers.            *)
(*                                                                         *)
(* Strings are sequences of one-character strings, so that strip, upper,   *)
(* concatenation and formatting are computed and not assumed.  Package     *)
(* paths are sequences of path segments ("xl/media/a.png" is               *)
(* <<"xl", "media", "a.png">>).                                            *)
(***************************************************************************)
EXTENDS Integers, Sequences, FiniteSets, TLC

VARIABLES
    release,     \* which release of the spreadsheet library is installed
    letter,      \* column addressing: the argument of column_letter_to_index
    colOut,      \* column addressing: what the call produced
    relsPath,    \* path resolution: the rels file's path (rels_file_path)
    target,      \* path resolution: the relationship's Target
    resolved,    \* path resolution: what _resolve_rel_target returned
    navZf,       \* package navigation: the archive (part path -> content)
    navOut,      \* package navigation: what _find_drawing_for_sheet produced
    call,        \* extraction: the entry point called and its arguments
    exPc,        \* extraction: "start", "loop", "returned" or "raised"
    name_col_idx,    \* extraction: the local of that name
    filtered,        \* extraction: the local of that name (filtered, sorted)
    total_available, \* extraction: the local of that name
    results,         \* extraction: the local of that name
    used_names,      \* extraction: the local of that name
    exRet,       \* extraction: what the caller receives
    history,     \* successive calls: the calls made so far and their outcomes
    normIn,      \* file names: the name given to normalize
    normOut,     \* file names: what normalize produced
    files,           \* /process: the uploads of the request
    imageColumn,     \* /process: the form field of that name
    nameColumn,      \* /process: the form field of that name
    MAX_IMAGES,      \* /process: the module constant read from the environment
    MAX_FILES,       \* /process: the module constant read from the environment
    pPc,             \* /process: "start", "loop" or "done"
    handled,         \* /process: how many uploads the loop has gone through
    total_images,    \* /process: the local of that name
    written,         \* /process: the local of that name
    overwritten_same,    \* /process: the local of that name
    overwritten_diff,    \* /process: the local of that name
    seen,            \* /process: the local of that name (final name -> digest)
    manifest_rows,   \* /process: the local of that name
    zip_entries,     \* /process: what zf.writestr put into the archive
    response,         \* /process: what the client receives
    calls, \* ImageProcessor: how many process_excel_file calls were made
    self_total_images, \* ImageProcessor: self.total_images
    saved_count, \* ImageProcessor: self.saved_count
    duplicate_count, \* ImageProcessor: self.duplicate_count
    seen_names, \* ImageProcessor: self.seen_names
    processed_files, \* ImageProcessor: the lists the calls returned, in order
    ipRet, \* ImageProcessor: how the last call ended
    supabase, \* database: whether the module-level client is configured
    users, \* database: the rows of the users table
    dbFault, \* database: which operation of the request fails, if any
    url_path, \* AuthMiddleware: request.url.path
    auth_header, \* AuthMiddleware: the Authorization header of the request
    SUPABASE_JWT_SECRET, \* AuthMiddleware: whether the secret is configured
    request_state, \* AuthMiddleware: request.state, a record of the attributes set
    forwarded, \* AuthMiddleware: whether call_next(request) was called
    body, \* webhook: the body of the request being handled
    hookRet \* webhook: what handle_paypal_webhook answered

colVars == <<letter, colOut>>
pathVars == <<relsPath, target, resolved>>
navVars == <<navZf, navOut>>
exVars == <<call, exPc, name_col_idx, filtered, total_available, results, used_names, exRet>>
seqVars == <<history>>
normVars == <<normIn, normOut>>
procVars ==
    <<files, imageColumn, nameColumn, MAX_IMAGES, MAX_FILES, pPc, handled, total_images,
      written, overwritten_same, overwritten_diff, seen, manifest_rows, zip_entries,
      response>>
ipVars ==
    <<calls, self_total_images, saved_count, duplicate_count, seen_names,
      processed_files, ipRet>>
dbVars == <<supabase, users, dbFault>>
authVars ==
    <<url_path, auth_header, SUPABASE_JWT_SECRET, request_state, forwarded>>
hookVars == <<body, hookRet>>
vars ==
    <<release, colVars, pathVars, navVars, exVars, seqVars, normVars, procVars, ipVars,
      dbVars, authVars, hookVars>>

\* The variables a specification of one component leaves alone.
ColIdle == letter = <<>> /\ colOut = [err |-> "not-called", val |-> 0]
PathIdle == relsPath = <<>> /\ target = <<>> /\ resolved = <<>>
NavIdle == navZf = <<>> /\ navOut = [err |-> "not-called", val |-> 0]
ExIdle ==
    /\ call = <<>> /\ exPc = "idle" /\ name_col_idx = 0 /\ filtered = <<>>
    /\ total_available = 0 /\ results = <<>> /\ used_names = <<>>
    /\ exRet = [err |-> "not-called", val |-> <<>>]
SeqIdle == history = <<>>
NormIdle == normIn = <<>> /\ normOut = [err |-> "not-called", val |-> <<>>]
NoResponse == [status |-> 0, detail |-> "", entries |-> <<>>, report |-> <<>>]
ProcIdle ==
    /\ files = <<>> /\ imageColumn = <<>> /\ nameColumn = <<>>
    /\ MAX_IMAGES = 0 /\ MAX_FILES = 0 /\ pPc = "idle" /\ handled = 0
    /\ total_images = 0 /\ written = 0 /\ overwritten_same = 0
    /\ overwritten_diff = 0 /\ seen = <<>> /\ manifest_rows = <<>>
    /\ zip_entries = <<>> /\ response = NoResponse

IpIdle ==
    /\ calls = 0 /\ self_total_images = 0 /\ saved_count = 0 /\ duplicate_count = 0
    /\ seen_names = {} /\ processed_files = <<>> /\ ipRet = "not-called"

DbIdle ==
    /\ supabase = FALSE /\ users = {} /\ dbFault = "none"

AuthIdle ==
    /\ url_path = <<>> /\ auth_header = <<>> /\ SUPABASE_JWT_SECRET = FALSE
    /\ request_state = <<>> /\ forwarded = FALSE

HookIdle ==
    /\ body = <<>> /\ hookRet = "not-called"

(***************************************************************************)
(* Generic helpers on sequences.                                           *)
(***************************************************************************)
Range(s) == {s[i] : i \in 1..Len(s)}

SeqsUpTo(S, n) == UNION {[1..k -> S] : k \in 0..n}

(***************************************************************************)
(* Outcomes of a call: either a value or a raised error.                   *)
(***************************************************************************)
Ok(v) == [err |-> "", val |-> v]
Raise(e) == [err |-> e, val |-> 0]
NotCalled == [err |-> "not-called", val |-> 0]

(***************************************************************************)
(* Characters.  str.upper() and str.strip() of Python, on the characters   *)
(* of the model.                                                           *)
(***************************************************************************)
UpperLetters ==
    <<"A", "B", "C", "D", "E", "F", "G", "H", "I", "J", "K", "L", "M",
      "N", "O", "P", "Q", "R", "S", "T", "U", "V", "W", "X", "Y", "Z">>

LowerLetters ==
    <<"a", "b", "c", "d", "e", "f", "g", "h", "i", "j", "k", "l", "m",
      "n", "o", "p", "q", "r", "s", "t", "u", "v", "w", "x", "y", "z">>

IsUpper(c) == c \in Range(UpperLetters)
IsLower(c) == c \in Range(LowerLetters)
IsSpace(c) == c \in {" ", "\t", "\n", "\r"}

UpperChar(c) ==
    IF IsLower(c)
    THEN UpperLetters[CHOOSE i \in 1..26 : LowerLetters[i] = c]
    ELSE c

Upper(s) == [i \in 1..Len(s) |-> UpperChar(s[i])]

\* ord(c) - 64 for an upper-case ASCII letter
LetterValue(c) == CHOOSE i \in 1..26 : UpperLetters[i] = c

RECURSIVE LStrip(_)
LStrip(s) == IF s # <<>> /\ IsSpace(Head(s)) THEN LStrip(Tail(s)) ELSE s

RECURSIVE RStrip(_)
RStrip(s) ==
    IF s # <<>> /\ IsSpace(s[Len(s)]) THEN RStrip(SubSeq(s, 1, Len(s) - 1)) ELSE s

Strip(s) == RStrip(LStrip(s))

(***************************************************************************)
(* Column addressing.                                                      *)
(*                                                                         *)
(* column_index_from_string is openpyxl's.  Every release accepts exactly  *)
(* the names A..ZZZ (upper-cased) and raises ValueError for a name with a  *)
(* character outside A-Z or with more than three characters.  The releases *)
(* differ on the empty name: the releases that look the name up in the     *)
(* table of A..ZZZ ("lookup") raise, the releases that sum the digits      *)
(* ("sum", 3.1 and later) return 0.  The installed release is part of the  *)
(* state.                                                                  *)
(***************************************************************************)
Releases == {"lookup", "sum"}

RECURSIVE Base26(_)
Base26(s) ==
    IF s = <<>> THEN 0
    ELSE 26 * Base26(SubSeq(s, 1, Len(s) - 1)) + LetterValue(s[Len(s)])

MaxColumnNameLen == 3

column_index_from_string(str_col, rel) ==
    LET col == Upper(str_col) IN
    IF Len(col) > MaxColumnNameLen \/ \E i \in 1..Len(col) : ~IsUpper(col[i])
    THEN Raise("InvalidColumn")
    ELSE IF col = <<>> /\ rel = "lookup"
    THEN Raise("InvalidColumn")
    ELSE Ok(Base26(col))

\* Mutants of column_letter_to_index: the index left one-based; the argument
\* not stripped.
column_letter_to_index_OneBased(s, rel) ==
    column_index_from_string(Upper(Strip(s)), rel)

column_letter_to_index_NoStrip(s, rel) ==
    LET r == column_index_from_string(Upper(s), rel)
    IN  IF r.err = "" THEN Ok(r.val - 1) ELSE r

column_letter_to_index(s, rel) ==
    LET r == column_index_from_string(Upper(Strip(s)), rel)
    IN  IF r.err = "" THEN Ok(r.val - 1) ELSE r

(***************************************************************************)
(* Specification of column addressing: the function applied to every       *)
(* string of at most MaxLetterLen characters of LetterChars.               *)
(***************************************************************************)
MaxLetterLen == 3

LetterChars == {"A", "B", "C", "Z", "a", "z", "1", " "}

LetterStrings == SeqsUpTo(LetterChars, MaxLetterLen)

ConvertColumn ==
    /\ colOut = NotCalled
    /\ colOut' = column_letter_to_index(letter, release)
    /\ UNCHANGED <<release, hookVars, authVars, dbVars, ipVars,
                   seqVars, normVars, procVars, letter, pathVars, navVars, exVars>>

InitCol ==
    /\ release \in Releases
    /\ SeqIdle
    /\ HookIdle
    /\ AuthIdle
    /\ DbIdle
    /\ IpIdle
    /\ ProcIdle
    /\ NormIdle
    /\ letter \in LetterStrings
    /\ colOut = NotCalled
    /\ PathIdle
    /\ NavIdle
    /\ ExIdle

NextCol == ConvertColumn

SpecCol == InitCol /\ [][NextCol]_vars

(***************************************************************************)
(* The standard column naming (1 -> A, 26 -> Z, 27 -> AA, ...), written as *)
(* the repeated division that produces a name from a number.  It is the    *)
(* reference the claims about column addressing are stated against.        *)
(***************************************************************************)
RECURSIVE ColumnName(_)
ColumnName(n) ==
    IF n <= 0 THEN <<>>
    ELSE LET r == ((n - 1) % 26) + 1
         IN  Append(ColumnName((n - r) \div 26), UpperLetters[r])

IsLetterString(s) == \A i \in 1..Len(s) : IsUpper(s[i]) \/ IsLower(s[i])

Returned(out) == out.err = ""
Called(out) == out # NotCalled

\* C2: for every string of one or two letters (either case),
\* column_letter_to_index returns the zero-based index of the name in the
\* standard naming: the name of column index+1 is the upper-cased string, and
\* A->0, Z->25, AA->26, AZ->51, BA->52.
C2_ColumnIndexIsInverseOfNaming ==
    (Called(colOut) /\ Len(letter) \in 1..2 /\ IsLetterString(letter)) =>
        /\ Returned(colOut)
        /\ colOut.val >= 0
        /\ ColumnName(colOut.val + 1) = Upper(letter)
        /\ (Upper(letter) = <<"A">> => colOut.val = 0)
        /\ (Upper(letter) = <<"Z">> => colOut.val = 25)
        /\ (Upper(letter) = <<"A", "A">> => colOut.val = 26)
        /\ (Upper(letter) = <<"A", "Z">> => colOut.val = 51)
        /\ (Upper(letter) = <<"B", "A">> => colOut.val = 52)

C2_Witness ==
    /\ letter = <<"a", "Z">>
    /\ colOut = Ok(51)

\* C3 as stated: column_letter_to_index fails with InvalidColumn for the empty
\* string, for a string with a non-letter character and for a string longer
\* than two characters, and returns no index for such input.  (Read in the
\* claim's favour: surrounding white space, which the code strips, does not
\* count as a non-letter character.)
C3_Original ==
    LET t == Strip(letter) IN
    (Called(colOut) /\ (t = <<>> \/ ~IsLetterString(t) \/ Len(t) > 2)) =>
        colOut = Raise("InvalidColumn")

\* C3 amended: with u the stripped, upper-cased argument, the call fails with
\* InvalidColumn when u has a character outside A-Z or more than three
\* characters ("1", "A1", "ABCA"); it returns the index when u is one to three
\* letters ("ABC" -> 730); for an empty u it fails under the releases of the
\* library that look the name up and returns -1 under those that sum it.
C3_InvalidColumn ==
    Called(colOut) =>
        LET u == Upper(Strip(letter)) IN
        /\ (Len(u) > 3 \/ \E i \in 1..Len(u) : ~IsUpper(u[i]))
               => colOut = Raise("InvalidColumn")
        /\ (Len(u) \in 1..3 /\ \A i \in 1..Len(u) : IsUpper(u[i]))
               => Returned(colOut) /\ ColumnName(colOut.val + 1) = u
        /\ (letter = <<"A", "B", "C">> => colOut = Ok(730))
        /\ (u = <<>> =>
               colOut = IF release = "lookup" THEN Raise("InvalidColumn") ELSE Ok(-1))

C3_Witness ==
    \/ letter = <<"A", "1">> /\ colOut = Raise("InvalidColumn")
    \/ letter = <<"A", "B", "C">> /\ colOut = Ok(730)

(***************************************************************************)
(* Package paths.  A path is the sequence of its segments, the text split  *)
(* at "/": "" is <<>>, "xl/a.xml" is <<"xl", "a.xml">>, an absolute path   *)
(* "/xl/a.xml" is <<"", "xl", "a.xml">>.  dirname, basename, join and      *)
(* normpath are posixpath's.                                               *)
(***************************************************************************)
IsAbs(p) == Len(p) >= 2 /\ p[1] = ""

RECURSIVE DropTrailingEmpty(_)
DropTrailingEmpty(p) ==
    IF p # <<>> /\ p[Len(p)] = "" /\ ~(\A i \in 1..Len(p) : p[i] = "")
    THEN DropTrailingEmpty(SubSeq(p, 1, Len(p) - 1))
    ELSE p

\* posixpath.dirname: everything before the last "/", trailing slashes removed
Dirname(p) ==
    IF Len(p) <= 1 THEN <<>>
    ELSE LET head == SubSeq(p, 1, Len(p) - 1)
         IN  IF \A i \in 1..Len(head) : head[i] = ""
             THEN Append(head, "")
             ELSE DropTrailingEmpty(head)

\* posixpath.basename: everything after the last "/"
Basename(p) == IF p = <<>> THEN <<>> ELSE <<p[Len(p)]>>

\* posixpath.join(a, b)
Join(a, b) ==
    IF IsAbs(b) THEN b
    ELSE IF a = <<>> THEN b
    ELSE IF a[Len(a)] = "" THEN SubSeq(a, 1, Len(a) - 1) \o b
    ELSE a \o b

\* posixpath.normpath: the loop over the components
RECURSIVE NormComps(_, _, _)
NormComps(comps, new_comps, initial_slashes) ==
    IF comps = <<>> THEN new_comps
    ELSE
        LET comp == Head(comps) IN
        IF comp \in {"", "."}
        THEN NormComps(Tail(comps), new_comps, initial_slashes)
        ELSE IF \/ comp # ".."
                \/ (~initial_slashes /\ new_comps = <<>>)
                \/ (new_comps # <<>> /\ new_comps[Len(new_comps)] = "..")
        THEN NormComps(Tail(comps), Append(new_comps, comp), initial_slashes)
        ELSE IF new_comps # <<>>
        THEN NormComps(Tail(comps), SubSeq(new_comps, 1, Len(new_comps) - 1),
                       initial_slashes)
        ELSE NormComps(Tail(comps), new_comps, initial_slashes)

Normpath(p) ==
    IF p = <<>> THEN <<".">>
    ELSE
        LET comps == NormComps(p, <<>>, IsAbs(p)) IN
        IF IsAbs(p) THEN <<"">> \o (IF comps = <<>> THEN <<"">> ELSE comps)
        ELSE IF comps = <<>> THEN <<".">>
        ELSE comps

\* Mutant of _resolve_rel_target: the target joined to the _rels directory
\* itself (one directory level instead of two).
resolve_rel_target_OneLevel(rels_file_path, tgt) ==
    Normpath(Join(Dirname(rels_file_path), tgt))

_resolve_rel_target(rels_file_path, tgt) ==
    LET source_base_dir == Dirname(Dirname(rels_file_path))
    IN  Normpath(Join(source_base_dir, tgt))

(***************************************************************************)
(* Specification of path resolution: _resolve_rel_target applied to the    *)
(* rels files <dir>/_rels/<name>.rels, dir of at most MaxDirDepth          *)
(* segments, and to the targets of at most MaxTargetLen segments.          *)
(***************************************************************************)
MaxDirDepth == 2
MaxTargetLen == 3

DirSegments == {"xl", "worksheets"}
RelsNames == {"sheet1.xml.rels", "drawing1.xml.rels"}
TargetSegments == {"..", ".", "", "media", "image1.png"}

RelsPaths ==
    {d \o <<"_rels", n>> : d \in SeqsUpTo(DirSegments, MaxDirDepth), n \in RelsNames}

Targets == SeqsUpTo(TargetSegments, MaxTargetLen)

ResolveTarget ==
    /\ resolved = <<>>
    /\ resolved' = _resolve_rel_target(relsPath, target)
    /\ UNCHANGED <<release, hookVars, authVars, dbVars, ipVars,
                   seqVars, normVars, procVars, colVars, relsPath, target, navVars, exVars>>

InitPath ==
    /\ release = "lookup"
    /\ SeqIdle
    /\ HookIdle
    /\ AuthIdle
    /\ DbIdle
    /\ IpIdle
    /\ ProcIdle
    /\ NormIdle
    /\ ColIdle
    /\ relsPath \in RelsPaths
    /\ target \in Targets
    /\ resolved = <<>>
    /\ NavIdle
    /\ ExIdle

NextPath == ResolveTarget

SpecPath == InitPath /\ [][NextPath]_vars

(***************************************************************************)
(* The reference for C4: walk the target's segments from the directory     *)
(* that holds the _rels directory, one segment at a time.                  *)
(***************************************************************************)
RECURSIVE Walk(_, _)
Walk(at, segs) ==
    IF segs = <<>> THEN at
    ELSE LET seg == Head(segs) IN
         IF seg \in {"", "."} THEN Walk(at, Tail(segs))
         ELSE IF seg = ".." /\ at # <<>> /\ at[Len(at)] # ".."
         THEN Walk(SubSeq(at, 1, Len(at) - 1), Tail(segs))
         ELSE Walk(Append(at, seg), Tail(segs))

\* The directory that holds the _rels directory of a rels path <dir>/_rels/<name>
RelsParent(p) == SubSeq(p, 1, Len(p) - 2)

\* C4: for every rels path <dir>/_rels/<name>.rels and every relative target,
\* _resolve_rel_target returns the target walked from <dir> (the parent of the
\* _rels directory) with ".." segments collapsed; "../media/image1.png" from
\* xl/worksheets/_rels/sheet1.xml.rels gives xl/media/image1.png.
C4_ResolveFromParentOfRels ==
    (resolved # <<>> /\ ~IsAbs(target)) =>
        /\ LET w == Walk(RelsParent(relsPath), target)
           IN  resolved = IF w = <<>> THEN <<".">> ELSE w
        /\ (/\ relsPath = <<"xl", "worksheets", "_rels", "sheet1.xml.rels">>
            /\ target = <<"..", "media", "image1.png">>)
               => resolved = <<"xl", "media", "image1.png">>

C4_Witness ==
    /\ relsPath = <<"xl", "worksheets", "_rels", "sheet1.xml.rels">>
    /\ target = <<"..", "media", "image1.png">>
    /\ resolved = <<"xl", "media", "image1.png">>

(***************************************************************************)
(* The package.  An archive (zf) is a function from the paths of its parts *)
(* (zf.namelist()) to their contents.  The content of an XML part is what  *)
(* the extractor reads from it:                                            *)
(*   workbook  [kind |-> "workbook", sheets |-> the r:id of each <sheet>]  *)
(*   rels      [kind |-> "rels", rels |-> the <Relationship> elements]     *)
(*   worksheet [kind |-> "sheet", drawing |-> the <drawing> element]       *)
(*   drawing   [kind |-> "drawing", anchors |-> the anchor elements]       *)
(*   media     [kind |-> "media", data |-> the bytes, format |-> ...]      *)
(* An attribute that is missing is the empty string (a path: <<>>); both   *)
(* are falsy in the code's tests "if not r_id", "if not target".           *)
(***************************************************************************)
NoDrawingEl == "no-drawing-element"
NoPath == <<>>

Namelist(zf) == DOMAIN zf

Rel(id, type, tgt) == [Id |-> id, Type |-> type, Target |-> tgt]

\* ET.fromstring(zf.read(path)).findall(".//Relationship") of a rels part
Relationships(content) == IF content.kind = "rels" THEN content.rels ELSE <<>>

\* sheet_root.find(".//drawing"): the r:id of the element ("" when the
\* attribute is missing), or NoDrawingEl when there is no such element
DrawingEl(content) == IF content.kind = "sheet" THEN content.drawing ELSE NoDrawingEl

WORKBOOK_XML == <<"xl", "workbook.xml">>
WORKBOOK_RELS == <<"xl", "_rels", "workbook.xml.rels">>

\* name + ".rels" for the part names of the model
PartNames == <<"workbook.xml", "sheet1.xml", "sheet2.xml", "drawing1.xml", "drawing2.xml">>
RelsNamesOf ==
    <<"workbook.xml.rels", "sheet1.xml.rels", "sheet2.xml.rels",
      "drawing1.xml.rels", "drawing2.xml.rels">>

WithRelsSuffix(name) ==
    IF \E i \in 1..Len(PartNames) : name = <<PartNames[i]>>
    THEN <<RelsNamesOf[CHOOSE i \in 1..Len(PartNames) : name = <<PartNames[i]>>]>>
    ELSE <<"other.rels">>

\* posixpath.join(posixpath.dirname(part), "_rels", posixpath.basename(part) + ".rels")
RelsPathOf(part) ==
    Join(Join(Dirname(part), <<"_rels">>), WithRelsSuffix(Basename(part)))

\* The index of the first TRUE of a sequence of booleans, 0 when there is
\* none: where a "for rel in ...: if ...: break" loop stops
FirstTrue(hits) ==
    IF \E i \in 1..Len(hits) : hits[i]
    THEN CHOOSE i \in 1..Len(hits) : hits[i] /\ \A j \in 1..(i - 1) : ~hits[j]
    ELSE 0

REL_TYPE_WORKSHEET == "relationships/worksheet"
REL_TYPE_DRAWING == "relationships/drawing"
REL_TYPE_IMAGE == "relationships/image"
REL_TYPE_STYLES == "relationships/styles"

\* rel_type.endswith("/worksheet")
EndsWithWorksheet(rel_type) == rel_type = REL_TYPE_WORKSHEET

\* wb_root.findall(".//sheets/sheet"): the r:id of each <sheet> element
Sheets(content) == IF content.kind = "workbook" THEN content.sheets ELSE <<>>

\* Mutant of _get_first_sheet_paths: the first worksheet-typed relationship
\* is preferred to the relationship with the sheet's id.
get_first_sheet_paths_FallbackFirst(zf) ==
    IF WORKBOOK_XML \notin Namelist(zf) THEN Raise("MalformedPackage")
    ELSE IF WORKBOOK_RELS \notin Namelist(zf) THEN Raise("MalformedPackage")
    ELSE IF Sheets(zf[WORKBOOK_XML]) = <<>> THEN Raise("MalformedPackage")
    ELSE
        LET r_id == Sheets(zf[WORKBOOK_XML])[1] IN
        IF r_id = "" THEN Raise("MalformedPackage")
        ELSE
            LET rels == Relationships(zf[WORKBOOK_RELS])
                i == FirstTrue([k \in 1..Len(rels) |-> rels[k].Id = r_id])
                j == FirstTrue([k \in 1..Len(rels) |-> EndsWithWorksheet(rels[k].Type)])
                typed == IF j = 0 THEN <<>> ELSE rels[j].Target
                sheet_target ==
                    IF typed # <<>> THEN typed
                    ELSE IF i = 0 THEN <<>> ELSE rels[i].Target
            IN  IF sheet_target = <<>> THEN Raise("MalformedPackage")
                ELSE LET sheet_xml == _resolve_rel_target(WORKBOOK_RELS, sheet_target)
                     IN  Ok(<<sheet_xml, RelsPathOf(sheet_xml)>>)

_get_first_sheet_paths(zf) ==
    IF WORKBOOK_XML \notin Namelist(zf) THEN Raise("MalformedPackage")
    ELSE IF WORKBOOK_RELS \notin Namelist(zf) THEN Raise("MalformedPackage")
    ELSE IF Sheets(zf[WORKBOOK_XML]) = <<>> THEN Raise("MalformedPackage")
    ELSE
        LET r_id == Sheets(zf[WORKBOOK_XML])[1] IN
        IF r_id = "" THEN Raise("MalformedPackage")
        ELSE
            LET rels == Relationships(zf[WORKBOOK_RELS])
                i == FirstTrue([k \in 1..Len(rels) |-> rels[k].Id = r_id])
                j == FirstTrue([k \in 1..Len(rels) |-> EndsWithWorksheet(rels[k].Type)])
                exact == IF i = 0 THEN <<>> ELSE rels[i].Target
                sheet_target ==
                    IF exact # <<>> THEN exact
                    ELSE IF j = 0 THEN <<>> ELSE rels[j].Target
            IN  IF sheet_target = <<>> THEN Raise("MalformedPackage")
                ELSE LET sheet_xml == _resolve_rel_target(WORKBOOK_RELS, sheet_target)
                     IN  Ok(<<sheet_xml, RelsPathOf(sheet_xml)>>)

\* Mutant of _find_drawing_for_sheet: a <drawing> element whose relationship
\* is not found is an error.
find_drawing_for_sheet_Strict(zf, sheet_xml, sheet_rels) ==
    IF sheet_xml \notin Namelist(zf) THEN Raise("KeyError")
    ELSE
        LET r_id == DrawingEl(zf[sheet_xml]) IN
        IF r_id = NoDrawingEl \/ r_id = "" THEN Ok(NoPath)
        ELSE IF sheet_rels \notin Namelist(zf) THEN Raise("MalformedPackage")
        ELSE
            LET rels == Relationships(zf[sheet_rels])
                i == FirstTrue([k \in 1..Len(rels) |->
                                  rels[k].Id = r_id /\ rels[k].Target # <<>>])
            IN  IF i = 0 THEN Raise("MalformedPackage")
                ELSE Ok(_resolve_rel_target(sheet_rels, rels[i].Target))

_find_drawing_for_sheet(zf, sheet_xml, sheet_rels) ==
    IF sheet_rels \notin Namelist(zf) THEN Ok(NoPath)
    ELSE IF sheet_xml \notin Namelist(zf) THEN Raise("KeyError")
    ELSE
        LET r_id == DrawingEl(zf[sheet_xml]) IN
        IF r_id = NoDrawingEl THEN Ok(NoPath)
        ELSE IF r_id = "" THEN Ok(NoPath)
        ELSE
            LET rels == Relationships(zf[sheet_rels])
                i == FirstTrue([k \in 1..Len(rels) |->
                                  rels[k].Id = r_id /\ rels[k].Target # <<>>])
            IN  IF i = 0 THEN Ok(NoPath)
                ELSE Ok(_resolve_rel_target(sheet_rels, rels[i].Target))

(***************************************************************************)
(* The drawing part.  An anchor element of the drawing XML is              *)
(*   [tag, hasFrom, row, col, hasPic, hasBlip, embed]                      *)
(* tag is the element name, row and col the text of the <row> and <col>    *)
(* children of <from> (NoChild when the child is missing), embed the       *)
(* r:embed attribute of the blip (NoEmbed when it is missing).             *)
(***************************************************************************)
NoChild == -1
NoEmbed == "no-embed-attribute"

AnchorEl(tag, hasFrom, row, col, hasPic, hasBlip, embed) ==
    [tag |-> tag, hasFrom |-> hasFrom, row |-> row, col |-> col,
     hasPic |-> hasPic, hasBlip |-> hasBlip, embed |-> embed]

\* root.findall(".//xdr:<tag>"): the anchor elements of a drawing part
AnchorEls(content) == IF content.kind = "drawing" THEN content.anchors ELSE <<>>

\* Mutant of TextOr0: a missing child reads as 1.
TextOr0_One(text) == IF text = NoChild THEN 1 ELSE text

\* from_node.findtext("xdr:row", default="0"), as an int
TextOr0(text) == IF text = NoChild THEN 0 ELSE text

\* One of the two loops of _parse_anchored_images: the elements of one tag
ParseTag(els, tag) ==
    LET Kept(el) ==
            /\ el.tag = tag
            /\ el.hasFrom /\ el.hasPic
            /\ el.hasBlip
            /\ el.embed # NoEmbed
        kept == SelectSeq(els, Kept)
    IN  [i \in 1..Len(kept) |->
            <<TextOr0(kept[i].row), TextOr0(kept[i].col), kept[i].embed>>]

\* Mutant of _parse_anchored_images: the one-cell anchors are taken first.
parse_anchored_images_OneCellFirst(zf, drawing_xml_path) ==
    IF drawing_xml_path \notin Namelist(zf) THEN Raise("KeyError")
    ELSE LET els == AnchorEls(zf[drawing_xml_path])
         IN  Ok(ParseTag(els, "oneCellAnchor") \o ParseTag(els, "twoCellAnchor"))

_parse_anchored_images(zf, drawing_xml_path) ==
    IF drawing_xml_path \notin Namelist(zf) THEN Raise("KeyError")
    ELSE LET els == AnchorEls(zf[drawing_xml_path])
         IN  Ok(ParseTag(els, "twoCellAnchor") \o ParseTag(els, "oneCellAnchor"))

\* The last index of a relationship with this Id and a Target (a later
\* rmap[r_id] = ... overwrites an earlier one)
LastWithId(rels, id) ==
    CHOOSE k \in 1..Len(rels) :
        /\ rels[k].Id = id /\ rels[k].Target # <<>>
        /\ \A m \in (k + 1)..Len(rels) : ~(rels[m].Id = id /\ rels[m].Target # <<>>)

\* Mutant of _map_drawing_relations: without a rels file, rId1 is taken to be
\* the first media part.
map_drawing_relations_Default(zf, drawing_xml_path) ==
    LET rels_path == RelsPathOf(drawing_xml_path) IN
    IF rels_path \notin Namelist(zf)
    THEN [id \in {"rId1"} |-> <<"xl", "media", "image1.png">>]
    ELSE
        LET rels == Relationships(zf[rels_path])
            ids == {rels[k].Id : k \in {m \in 1..Len(rels) :
                                          rels[m].Id # "" /\ rels[m].Target # <<>>}}
        IN  [id \in ids |-> _resolve_rel_target(rels_path, rels[LastWithId(rels, id)].Target)]

_map_drawing_relations(zf, drawing_xml_path) ==
    LET rels_path == RelsPathOf(drawing_xml_path) IN
    IF rels_path \notin Namelist(zf) THEN <<>>
    ELSE
        LET rels == Relationships(zf[rels_path])
            ids == {rels[k].Id : k \in {m \in 1..Len(rels) :
                                          rels[m].Id # "" /\ rels[m].Target # <<>>}}
        IN  [id \in ids |-> _resolve_rel_target(rels_path, rels[LastWithId(rels, id)].Target)]

AnchoredImage(row, col, media_path) ==
    [row |-> row, col |-> col, media_path |-> media_path]

\* Mutant of JoinAnchors: the join ends at the first anchor whose relationship
\* id is not in the map.
JoinAnchors_StopAtUnknown(anchors, rel_map) ==
    LET unknown == {i \in 1..Len(anchors) : anchors[i][3] \notin DOMAIN rel_map}
        n == IF unknown = {} THEN Len(anchors)
             ELSE (CHOOSE i \in unknown : \A j \in unknown : i <= j) - 1
    IN  [i \in 1..n |-> AnchoredImage(anchors[i][1], anchors[i][2], rel_map[anchors[i][3]])]

\* for row_zero, col_zero, r_embed in anchors: if r_embed in rel_map: append
JoinAnchors(anchors, rel_map) ==
    LET Resolves(a) == a[3] \in DOMAIN rel_map
        kept == SelectSeq(anchors, Resolves)
    IN  [i \in 1..Len(kept) |-> AnchoredImage(kept[i][1], kept[i][2], rel_map[kept[i][3]])]

\* Mutant of FilterByColumn: nothing is filtered out.
FilterByColumn_KeepAll(anchored_images, img_col_idx) == anchored_images

\* [ai for ai in anchored_images if ai.col == img_col_idx]
FilterByColumn(anchored_images, img_col_idx) ==
    LET InColumn(ai) == ai.col = img_col_idx
    IN  SelectSeq(anchored_images, InColumn)

\* Mutant of InsertByRow: the element goes before the elements of its own
\* row (a sort that is not stable).
InsertByRow_BeforeEqual(sorted, ai) ==
    SelectSeq(sorted, LAMBDA x : x.row < ai.row) \o <<ai>>
        \o SelectSeq(sorted, LAMBDA x : x.row >= ai.row)

\* list.sort(key=lambda x: x.row): a stable sort, written as insertion of each
\* element after the elements whose row is not greater
RECURSIVE InsertByRow(_, _)
InsertByRow(sorted, ai) ==
    IF sorted = <<>> THEN <<ai>>
    ELSE IF sorted[Len(sorted)].row <= ai.row THEN Append(sorted, ai)
    ELSE Append(InsertByRow(SubSeq(sorted, 1, Len(sorted) - 1), ai), sorted[Len(sorted)])

\* Mutant of SortByRow: the list is left in document order.
SortByRow_Unsorted(list) == list

RECURSIVE SortByRow(_)
SortByRow(list) ==
    IF list = <<>> THEN <<>>
    ELSE InsertByRow(SortByRow(SubSeq(list, 1, Len(list) - 1)), list[Len(list)])

(***************************************************************************)
(* The first worksheet as load_workbook gives it: a title and the cells    *)
(* that hold something, keyed <<row, column>> (both 1-based).  A cell      *)
(* value is None, a text or a number.                                      *)
(***************************************************************************)
None == [t |-> "none", s |-> <<>>, n |-> 0]
Text(s) == [t |-> "s", s |-> s, n |-> 0]
Number(n) == [t |-> "n", s |-> <<>>, n |-> n]

\* ws.cell(row=..., column=...).value
ws_cell(ws, row, column) ==
    IF row < 1 \/ column < 1 THEN Raise("ValueError")
    ELSE IF <<row, column>> \in DOMAIN ws.cells THEN Ok(ws.cells[<<row, column>>])
    ELSE Ok(None)

DigitChars == <<"0", "1", "2", "3", "4", "5", "6", "7", "8", "9">>
IsDigit(c) == c \in Range(DigitChars)

\* str(n) of a natural number
RECURSIVE StrOfNat(_)
StrOfNat(n) ==
    IF n < 10 THEN <<DigitChars[n + 1]>>
    ELSE Append(StrOfNat(n \div 10), DigitChars[(n % 10) + 1])

\* str(n) of an int
StrOfInt(n) == IF n < 0 THEN <<"-">> \o StrOfNat(-n) ELSE StrOfNat(n)

\* str(name_cell) of a cell value that is not None
StrOfCell(value) == IF value.t = "s" THEN value.s ELSE StrOfInt(value.n)

IMAGE_ROW == <<"i", "m", "a", "g", "e", "_", "r", "o", "w">>

\* Mutant of NameOrFallback: the fallback numbered with the zero-based row.
NameOrFallback_ZeroBased(name_cell, row_number) ==
    IF name_cell # None THEN StrOfCell(name_cell)
    ELSE IMAGE_ROW \o StrOfInt(row_number - 1)

\* str(name_cell) if name_cell is not None else f"image_row{row_number}"
NameOrFallback(name_cell, row_number) ==
    IF name_cell # None THEN StrOfCell(name_cell) ELSE IMAGE_ROW \o StrOfInt(row_number)

(***************************************************************************)
(* extract_images_by_column's file names and conversion.                   *)
(***************************************************************************)
IsSafeChar(c) == IsUpper(c) \/ IsLower(c) \/ IsDigit(c) \/ c \in {".", "_", "-"}

RECURSIVE DropUnsafe(_)
DropUnsafe(s) == IF s # <<>> /\ ~IsSafeChar(Head(s)) THEN DropUnsafe(Tail(s)) ELSE s

\* re.sub(r"[^A-Za-z0-9._-]+", "_", name)
RECURSIVE SubUnsafe(_)
SubUnsafe(s) ==
    IF s = <<>> THEN <<>>
    ELSE IF IsSafeChar(Head(s)) THEN <<Head(s)>> \o SubUnsafe(Tail(s))
    ELSE <<"_">> \o SubUnsafe(DropUnsafe(s))

IMAGE == <<"i", "m", "a", "g", "e">>
DOT_PNG == <<".", "p", "n", "g">>

_sanitize_filename(name) ==
    LET n == SubUnsafe(Strip(name)) IN IF n = <<>> THEN IMAGE ELSE n

\* Image bytes are [data, format, reencoded]: what the picture is, the format
\* it is encoded in ("undecodable" when no decoder reads it), and whether this
\* program produced the encoding.
Bytes(data, format) == [data |-> data, format |-> format, reencoded |-> FALSE]

_convert_to_png(image_bytes) ==
    IF image_bytes.format = "undecodable" THEN Raise("UnidentifiedImageError")
    ELSE Ok([data |-> image_bytes.data, format |-> "png", reencoded |-> TRUE])

\* Mutant of ReadMedia: the bytes read are re-encoded as PNG.
ReadMedia_Reencoded(zf, path) ==
    IF path \notin Namelist(zf) THEN Raise("KeyError")
    ELSE IF zf[path].kind # "media" THEN Ok(Bytes("xml", "undecodable"))
    ELSE Ok([data |-> zf[path].data, format |-> "png", reencoded |-> TRUE])

\* zf.read(path) of a media part
ReadMedia(zf, path) ==
    IF path \notin Namelist(zf) THEN Raise("KeyError")
    ELSE IF zf[path].kind # "media" THEN Ok(Bytes("xml", "undecodable"))
    ELSE Ok(Bytes(zf[path].data, zf[path].format))

(***************************************************************************)
(* The three entry points.  Each begins with the same statements (the      *)
(* columns, the worksheet, the drawing, the relationship map, the anchors, *)
(* the join, the filter, the sort), modelled by Prepare, and then loops    *)
(* over the filtered list; the body of each loop is an operator from the   *)
(* locals before an iteration to the locals after it.                      *)
(*                                                                         *)
(* xlsx_bytes is [zf, ws]: the archive and the first worksheet as          *)
(* load_workbook reads it from the same bytes.  max_images = 0 stands for  *)
(* None (both are falsy in "if max_images and max_images > 0").            *)
(***************************************************************************)
\* load_workbook(...) and wb.worksheets[0]: the library reads the workbook part
\* and its rels from the archive and loads the worksheets whose parts are in
\* it; "LoadWorkbookError" stands for the exception it raises when one is
\* missing (KeyError from the archive, IndexError from worksheets[0]), which
\* is not a ValueError.
load_workbook(xlsx_bytes) ==
    LET zf == xlsx_bytes.zf
        paths == _get_first_sheet_paths(zf)
    IN  IF WORKBOOK_XML \notin Namelist(zf) \/ WORKBOOK_RELS \notin Namelist(zf)
        THEN Raise("LoadWorkbookError")
        ELSE IF paths.err # "" \/ paths.val[1] \notin Namelist(zf)
        THEN Raise("LoadWorkbookError")
        ELSE Ok(xlsx_bytes.ws)

PrepFail(e) ==
    [err |-> e, nodrawing |-> FALSE, name_col_idx |-> 0, filtered |-> <<>>]

Prepare(xlsx_bytes, image_col_letter, name_col_letter, rel) ==
    LET img_col == column_letter_to_index(image_col_letter, rel)
        name_col == column_letter_to_index(name_col_letter, rel)
        wb == load_workbook(xlsx_bytes)
        zf == xlsx_bytes.zf
    IN
    IF img_col.err # "" THEN PrepFail(img_col.err)
    ELSE IF name_col.err # "" THEN PrepFail(name_col.err)
    ELSE IF wb.err # "" THEN PrepFail(wb.err)
    ELSE
        LET paths == _get_first_sheet_paths(zf) IN
        IF paths.err # "" THEN PrepFail(paths.err)
        ELSE
            LET drawing == _find_drawing_for_sheet(zf, paths.val[1], paths.val[2]) IN
            IF drawing.err # "" THEN PrepFail(drawing.err)
            ELSE IF drawing.val = NoPath
            THEN [err |-> "", nodrawing |-> TRUE,
                  name_col_idx |-> name_col.val, filtered |-> <<>>]
            ELSE
                LET rel_map == _map_drawing_relations(zf, drawing.val)
                    anchors == _parse_anchored_images(zf, drawing.val)
                IN
                IF anchors.err # "" THEN PrepFail(anchors.err)
                ELSE [err |-> "", nodrawing |-> FALSE,
                      name_col_idx |-> name_col.val,
                      filtered |->
                          SortByRow(FilterByColumn(JoinAnchors(anchors.val, rel_map),
                                                   img_col.val))]

ExtractedImageDetail(row, sheet, name_raw, image_bytes) ==
    [row |-> row, sheet |-> sheet, name_raw |-> name_raw, image_bytes |-> image_bytes]

\* The locals a loop body changes
Locals(e, res, used) == [err |-> e, results |-> res, used_names |-> used]

\* Mutant of CapExceeded: the comparison is >= (the cap itself is refused).
CapExceeded_AtCap(max_images, res) == max_images > 0 /\ Len(res) >= max_images

\* Mutant of CapExceeded: one more record is let through.
CapExceeded_OneLate(max_images, res) == max_images > 0 /\ Len(res) > max_images + 1

\* if max_images and max_images > 0 and len(results) > max_images
CapExceeded(max_images, res) == max_images > 0 /\ Len(res) > max_images

\* The loop body of extract_images_details
DetailsBody(xlsx_bytes, nci, max_images, res, ai) ==
    LET row_number == ai.row + 1
        name_cell == ws_cell(xlsx_bytes.ws, row_number, nci + 1)
    IN
    IF name_cell.err # "" THEN Locals(name_cell.err, res, <<>>)
    ELSE
        LET name_raw == NameOrFallback(name_cell.val, row_number)
            raw_bytes == ReadMedia(xlsx_bytes.zf, ai.media_path)
        IN
        IF raw_bytes.err # "" THEN Locals(raw_bytes.err, res, <<>>)
        ELSE
            LET appended == Append(res, ExtractedImageDetail(
                                row_number, xlsx_bytes.ws.title, name_raw, raw_bytes.val))
            IN  IF CapExceeded(max_images, appended)
                THEN Locals("TooManyImages", appended, <<>>)
                ELSE Locals("", appended, <<>>)

\* The loop body of extract_images_details_with_total
WithTotalBody(xlsx_bytes, nci, res, ai) ==
    LET row_number == ai.row + 1
        name_cell == ws_cell(xlsx_bytes.ws, row_number, nci + 1)
    IN
    IF name_cell.err # "" THEN Locals(name_cell.err, res, <<>>)
    ELSE
        LET name_raw == NameOrFallback(name_cell.val, row_number)
            raw_bytes == ReadMedia(xlsx_bytes.zf, ai.media_path)
        IN
        IF raw_bytes.err # "" THEN Locals(raw_bytes.err, res, <<>>)
        ELSE Locals("", Append(res, ExtractedImageDetail(
                        row_number, xlsx_bytes.ws.title, name_raw, raw_bytes.val)), <<>>)

\* used_names.get(base_name, 0)
GetCounter(used, base_name) == IF base_name \in DOMAIN used THEN used[base_name] ELSE 0

\* used_names[base_name] = counter + 1
SetCounter(used, base_name, n) ==
    [k \in DOMAIN used \cup {base_name} |-> IF k = base_name THEN n ELSE used[k]]

\* The loop body of extract_images_by_column
ByColumnBody(xlsx_bytes, nci, max_images, res, used, ai) ==
    LET row_number == ai.row + 1
        name_cell == ws_cell(xlsx_bytes.ws, row_number, nci + 1)
    IN
    IF name_cell.err # "" THEN Locals(name_cell.err, res, used)
    ELSE
        LET base_name == _sanitize_filename(NameOrFallback(name_cell.val, row_number))
            counter == GetCounter(used, base_name)
            used1 == SetCounter(used, base_name, counter + 1)
            filename == IF counter = 0 THEN base_name \o DOT_PNG
                        ELSE base_name \o <<"_">> \o StrOfInt(counter) \o DOT_PNG
            raw_bytes == ReadMedia(xlsx_bytes.zf, ai.media_path)
        IN
        IF raw_bytes.err # "" THEN Locals(raw_bytes.err, res, used1)
        ELSE
            LET png_bytes == _convert_to_png(raw_bytes.val) IN
            IF png_bytes.err # "" THEN Locals(png_bytes.err, res, used1)
            ELSE
                LET appended == Append(res, [filename |-> filename,
                                             png_bytes |-> png_bytes.val])
                IN  IF CapExceeded(max_images, appended)
                    THEN Locals("TooManyImages", appended, used1)
                    ELSE Locals("", appended, used1)

\* Mutant of Truncated: the last soft_limit elements are kept.
Truncated_Last(list, soft_limit) ==
    IF soft_limit > 0 /\ soft_limit < Len(list)
    THEN SubSeq(list, Len(list) - soft_limit + 1, Len(list)) ELSE list

\* filtered[:max_count], max_count = soft_limit if (soft_limit and soft_limit > 0)
\* else total_available
Truncated(list, soft_limit) ==
    IF soft_limit > 0 /\ soft_limit < Len(list) THEN SubSeq(list, 1, soft_limit) ELSE list

(***************************************************************************)
(* Specification of package navigation: _find_drawing_for_sheet applied to *)
(* the first worksheet (located as the extraction locates it) of archives  *)
(* whose worksheet part and worksheet rels are drawn from bounded sets.    *)
(***************************************************************************)
MaxRels == 2

SHEET1_XML == <<"xl", "worksheets", "sheet1.xml">>
SHEET1_RELS == <<"xl", "worksheets", "_rels", "sheet1.xml.rels">>
DRAWING1_XML == <<"xl", "drawings", "drawing1.xml">>
DRAWING1_RELS == <<"xl", "drawings", "_rels", "drawing1.xml.rels">>
DRAWING2_XML == <<"xl", "drawings", "drawing2.xml">>

WorkbookPart == [kind |-> "workbook", sheets |-> <<"rId1">>]
WorkbookRelsPart ==
    [kind |-> "rels",
     rels |-> <<Rel("rId1", REL_TYPE_WORKSHEET, <<"worksheets", "sheet1.xml">>)>>]
SheetPart(drawing) == [kind |-> "sheet", drawing |-> drawing]
RelsPart(rels) == [kind |-> "rels", rels |-> rels]

\* The parts every archive of the model has: the workbook and its rels
BaseZf == (WORKBOOK_XML :> WorkbookPart) @@ (WORKBOOK_RELS :> WorkbookRelsPart)

\* p :> c when the part is present, nothing otherwise
Part(present, p, c) == IF present THEN (p :> c) ELSE <<>>

NavDrawingEls == {NoDrawingEl, "", "rId1", "rId2"}

NavSheetRels ==
    {Rel(id, REL_TYPE_DRAWING, tgt) :
        id \in {"rId1", "rId2"},
        tgt \in {<<>>, <<"..", "drawings", "drawing1.xml">>,
                       <<"..", "drawings", "drawing2.xml">>}}

NavArchives ==
    {BaseZf @@ Part(hasSheet, SHEET1_XML, SheetPart(el))
            @@ Part(hasRels, SHEET1_RELS, RelsPart(rels)) :
        hasSheet \in BOOLEAN, el \in NavDrawingEls,
        hasRels \in BOOLEAN, rels \in SeqsUpTo(NavSheetRels, MaxRels)}

FindDrawing ==
    /\ navOut.err = "not-called"
    /\ LET paths == _get_first_sheet_paths(navZf) IN
       navOut' = IF paths.err # "" THEN paths
                 ELSE _find_drawing_for_sheet(navZf, paths.val[1], paths.val[2])
    /\ UNCHANGED <<release, hookVars, authVars, dbVars, ipVars,
                   seqVars, normVars, procVars, colVars, pathVars, navZf, exVars>>

InitNav ==
    /\ release = "lookup"
    /\ SeqIdle
    /\ HookIdle
    /\ AuthIdle
    /\ DbIdle
    /\ IpIdle
    /\ ProcIdle
    /\ NormIdle
    /\ ColIdle
    /\ PathIdle
    /\ navZf \in NavArchives
    /\ navOut = NotCalled
    /\ ExIdle

NextNav == FindDrawing

SpecNav == InitNav /\ [][NextNav]_vars

\* What the worksheet part and its rels file hold, read off the archive
NavSheetPresent == SHEET1_XML \in DOMAIN navZf
NavRelsPresent == SHEET1_RELS \in DOMAIN navZf
NavDrawingEl == navZf[SHEET1_XML].drawing
NavHasDrawingId == NavSheetPresent /\ NavDrawingEl \notin {NoDrawingEl, ""}
NavRelEntries == IF NavRelsPresent THEN Range(navZf[SHEET1_RELS].rels) ELSE {}
NavIdHasEntry == \E rel \in NavRelEntries : rel.Id = NavDrawingEl

\* C10 as stated: _find_drawing_for_sheet returns none when the worksheet has
\* no <drawing> element, and fails with MalformedPackage (and never returns
\* none) when the element has a relationship id that no entry of the
\* worksheet's relationships carries, the rels file being absent included.
C10_Original ==
    (navOut.err # "not-called" /\ NavSheetPresent) =>
        /\ NavDrawingEl = NoDrawingEl => (navOut.err = "" /\ navOut.val = NoPath)
        /\ (NavHasDrawingId /\ ~NavIdHasEntry) => navOut.err = "MalformedPackage"

\* C10 amended: _find_drawing_for_sheet never fails on a worksheet part that
\* exists.  It returns none when the worksheet has no <drawing> element, and
\* also when the element's relationship id has no entry with a target in the
\* worksheet's relationships or the rels file is absent; otherwise it returns
\* the resolved target of the first such entry.
C10_DanglingDrawingIsNone ==
    (navOut.err # "not-called" /\ NavSheetPresent) =>
        /\ navOut.err = ""
        /\ NavDrawingEl = NoDrawingEl => navOut.val = NoPath
        /\ (NavHasDrawingId /\ ~NavIdHasEntry) => navOut.val = NoPath
        /\ ~NavRelsPresent => navOut.val = NoPath
        /\ navOut.val # NoPath =>
              /\ NavHasDrawingId
              /\ \E rel \in NavRelEntries :
                    /\ rel.Id = NavDrawingEl
                    /\ rel.Target # <<>>
                    /\ navOut.val = Walk(<<"xl", "worksheets">>, rel.Target)
        /\ (NavHasDrawingId /\
              \E rel \in NavRelEntries : rel.Id = NavDrawingEl /\ rel.Target # <<>>)
              => navOut.val # NoPath

C10_Witness ==
    /\ NavSheetPresent
    /\ NavRelsPresent
    /\ NavDrawingEl = "rId1"
    /\ navZf[SHEET1_RELS].rels =
          <<Rel("rId2", REL_TYPE_DRAWING, <<"..", "drawings", "drawing1.xml">>)>>
    /\ navOut.err = ""
    /\ navOut.val = NoPath

(***************************************************************************)
(* Specification of the extraction: one call of one entry point, from its  *)
(* first statement to its return or raise, one loop iteration per step.    *)
(***************************************************************************)
Entries == {"by_column", "details", "with_total"}

\* What the entry point returns with these results
ReturnValue(entry, res, total) == IF entry = "with_total" THEN <<res, total>> ELSE res

\* The list the loop of the entry point runs over
\* Mutant of Todo: the loop is over the first element only.
Todo_FirstOnly(entry, list, limit) == IF Len(list) > 1 THEN SubSeq(list, 1, 1) ELSE list

Todo(entry, list, limit) == IF entry = "with_total" THEN Truncated(list, limit) ELSE list

\* Mutant of InitialUsedNames: the counters of the call before are kept.
InitialUsedNames_Kept(before) == before

\* results = [] and used_names = {}: whatever the frame of an earlier call held,
\* the locals of this call start empty
InitialResults(before) == <<>>
InitialUsedNames(before) == <<>>

Begin ==
    /\ exPc = "start"
    /\ LET p == Prepare(call.xlsx_bytes, call.image_col_letter,
                        call.name_col_letter, release)
       IN
       IF p.err # ""
       THEN /\ exPc' = "raised"
            /\ exRet' = [err |-> p.err, val |-> <<>>]
            /\ UNCHANGED <<name_col_idx, filtered, total_available, results, used_names>>
       ELSE IF p.nodrawing
       THEN /\ exPc' = "returned"
            /\ exRet' = [err |-> "", val |-> ReturnValue(call.entry, <<>>, 0)]
            /\ UNCHANGED <<name_col_idx, filtered, total_available, results, used_names>>
       ELSE /\ exPc' = "loop"
            /\ name_col_idx' = p.name_col_idx
            /\ filtered' = p.filtered
            /\ total_available' =
                  IF call.entry = "with_total" THEN Len(p.filtered) ELSE 0
            /\ results' = InitialResults(results)
            /\ used_names' = InitialUsedNames(used_names)
            /\ UNCHANGED exRet
    /\ UNCHANGED <<release, hookVars, authVars, dbVars, ipVars,
                   seqVars, normVars, procVars, colVars, pathVars, navVars, call>>

\* One iteration of the loop, given the locals after it
Iterated(st) ==
    /\ results' = st.results
    /\ used_names' = st.used_names
    /\ IF st.err # ""
       THEN exPc' = "raised" /\ exRet' = [err |-> st.err, val |-> <<>>]
       ELSE UNCHANGED <<exPc, exRet>>
    /\ UNCHANGED <<release, hookVars, authVars, dbVars, ipVars,
                   seqVars, normVars, procVars, colVars, pathVars, navVars, call,
                   name_col_idx, filtered, total_available>>

IterateDetails ==
    /\ exPc = "loop" /\ call.entry = "details"
    /\ Len(results) < Len(filtered)
    /\ Iterated(DetailsBody(call.xlsx_bytes, name_col_idx, call.limit, results,
                            filtered[Len(results) + 1]))

IterateByColumn ==
    /\ exPc = "loop" /\ call.entry = "by_column"
    /\ Len(results) < Len(filtered)
    /\ Iterated(ByColumnBody(call.xlsx_bytes, name_col_idx, call.limit, results,
                             used_names, filtered[Len(results) + 1]))

IterateWithTotal ==
    /\ exPc = "loop" /\ call.entry = "with_total"
    /\ Len(results) < Len(Truncated(filtered, call.limit))
    /\ Iterated(WithTotalBody(call.xlsx_bytes, name_col_idx, results,
                              Truncated(filtered, call.limit)[Len(results) + 1]))

Return ==
    /\ exPc = "loop"
    /\ Len(results) = Len(Todo(call.entry, filtered, call.limit))
    /\ exPc' = "returned"
    /\ exRet' = [err |-> "", val |-> ReturnValue(call.entry, results, total_available)]
    /\ UNCHANGED <<release, hookVars, authVars, dbVars, ipVars,
                   seqVars, normVars, procVars, colVars, pathVars, navVars, call,
                   name_col_idx, filtered, total_available, results, used_names>>

(***************************************************************************)
(* The inputs of the extraction.  Every archive has the workbook, its      *)
(* rels and the layout                                                     *)
(*   xl/worksheets/sheet1.xml    -> rId1 -> xl/drawings/drawing1.xml       *)
(*   xl/drawings/drawing1.xml    -> rId1, rId2, rId3 -> xl/media/image*    *)
(* with the variations named below.                                        *)
(***************************************************************************)
MaxAnchors == 3
MaxLimit == 3

MEDIA1 == <<"xl", "media", "image1.png">>
MEDIA2 == <<"xl", "media", "image2.jpeg">>
MEDIA3 == <<"xl", "media", "image3.bin">>

StdSheetRels == <<Rel("rId1", REL_TYPE_DRAWING, <<"..", "drawings", "drawing1.xml">>)>>

StdDrawingRels ==
    <<Rel("rId1", REL_TYPE_IMAGE, <<"..", "media", "image1.png">>),
      Rel("rId2", REL_TYPE_IMAGE, <<"..", "media", "image2.jpeg">>),
      Rel("rId3", REL_TYPE_IMAGE, <<"..", "media", "image3.bin">>)>>

DrawingPart(anchors) == [kind |-> "drawing", anchors |-> anchors]
MediaPart(data, format) == [kind |-> "media", data |-> data, format |-> format]

\* A media part in one of its states: "missing", or the format of its bytes
Media(p, data, state) == Part(state # "missing", p, MediaPart(data, state))

StdMedia ==
    Media(MEDIA1, "img1", "png") @@ Media(MEDIA2, "img2", "jpeg")
        @@ Media(MEDIA3, "img3", "png")

\* The archive of a well-formed workbook with these anchors and media parts
StdZf(anchors, media) ==
    BaseZf @@ (SHEET1_XML :> SheetPart("rId1")) @@ (SHEET1_RELS :> RelsPart(StdSheetRels))
           @@ (DRAWING1_XML :> DrawingPart(anchors))
           @@ (DRAWING1_RELS :> RelsPart(StdDrawingRels)) @@ media

\* The archives whose navigation departs from the standard layout
Layouts ==
    {"no-drawing-element", "dangling-drawing", "no-sheet-rels", "no-drawing-rels",
     "no-drawing-part", "no-workbook", "no-sheet"}

LayoutZf(layout, anchors) ==
    LET std == StdZf(anchors, StdMedia)
        Without(p) == [q \in (DOMAIN std) \ {p} |-> std[q]]
    IN  CASE layout = "no-drawing-element" ->
                BaseZf @@ (SHEET1_XML :> SheetPart(NoDrawingEl))
          [] layout = "dangling-drawing" ->
                (SHEET1_RELS :> RelsPart(<<Rel("rId2", REL_TYPE_DRAWING,
                                               <<"..", "drawings", "drawing1.xml">>)>>))
                    @@ std
          [] layout = "no-sheet-rels" -> Without(SHEET1_RELS)
          [] layout = "no-drawing-rels" -> Without(DRAWING1_RELS)
          [] layout = "no-drawing-part" -> Without(DRAWING1_XML)
          [] layout = "no-workbook" -> Without(WORKBOOK_XML)
          [] layout = "no-sheet" -> Without(SHEET1_XML)

\* A picture anchor
Pic(tag, row, col, embed) == AnchorEl(tag, TRUE, row, col, TRUE, TRUE, embed)

\* The anchors the drawings are made of: two-cell pictures in column B at
\* rows 3, 5, 7 and in column D at row 5, a one-cell picture in column B at
\* row 3, and a picture in column B whose r:embed has no relationship
AnchorShapes ==
    {Pic("twoCellAnchor", 2, 1, "rId1"), Pic("twoCellAnchor", 4, 1, "rId1"),
     Pic("twoCellAnchor", 6, 1, "rId1"), Pic("twoCellAnchor", 4, 3, "rId1"),
     Pic("oneCellAnchor", 2, 1, "rId2"), Pic("twoCellAnchor", 4, 1, "rId9")}

ThreeInB ==
    <<Pic("twoCellAnchor", 2, 1, "rId1"), Pic("oneCellAnchor", 4, 1, "rId2"),
      Pic("twoCellAnchor", 6, 1, "rId3")>>

\* The worksheet: names in column C
Worksheet(cells) == [title |-> "Sheet1", cells |-> cells]

StdCells == (<<3, 3>> :> Text(<<"p", "1">>)) @@ (<<7, 3>> :> Number(7))

NameValues ==
    {None, Text(<<>>), Text(<<"a">>), Text(<<"a", "_", "1">>), Number(7)}

\* The cells of column C at rows 3, 5, 7 holding these values (None: no cell)
NameCells(v3, v5, v7) ==
    Part(v3 # None, <<3, 3>>, v3) @@ Part(v5 # None, <<5, 3>>, v5)
        @@ Part(v7 # None, <<7, 3>>, v7)

Xlsx(zf, cells) == [zf |-> zf, ws |-> Worksheet(cells)]

Call(entry, xlsx_bytes, image_col_letter, name_col_letter, limit) ==
    [entry |-> entry, xlsx_bytes |-> xlsx_bytes,
     image_col_letter |-> image_col_letter, name_col_letter |-> name_col_letter,
     limit |-> limit]

Limits == 0..MaxLimit

\* the drawings: every sequence of anchors, every cap, image columns B and D
CallsByAnchors ==
    {Call(entry, Xlsx(StdZf(anchors, StdMedia), StdCells), icl, <<"C">>, limit) :
        entry \in Entries, anchors \in SeqsUpTo(AnchorShapes, MaxAnchors),
        icl \in {<<"B">>, <<"d">>}, limit \in Limits}

\* the names: every content of the three name cells
CallsByNames ==
    {Call(entry, Xlsx(StdZf(ThreeInB, StdMedia), NameCells(v3, v5, v7)),
          <<"B">>, <<"C">>, 0) :
        entry \in Entries, v3 \in NameValues, v5 \in NameValues, v7 \in NameValues}

\* the media parts: each present in some format or missing, and every cap
MediaStates == {"png", "undecodable", "missing"}

CallsByMedia ==
    {Call(entry,
          Xlsx(StdZf(ThreeInB, Media(MEDIA1, "img1", m1) @@ Media(MEDIA2, "img2", m2)
                                 @@ Media(MEDIA3, "img3", m3)), StdCells),
          <<"B">>, <<"C">>, limit) :
        entry \in Entries, m1 \in MediaStates, m2 \in MediaStates,
        m3 \in MediaStates, limit \in Limits}

\* the layouts, and the column letters that are no column
CallsByLayout ==
    {Call(entry, Xlsx(LayoutZf(layout, anchors), StdCells), icl, ncl, 0) :
        entry \in Entries, layout \in Layouts,
        anchors \in SeqsUpTo({Pic("twoCellAnchor", 2, 1, "rId1")}, 1),
        icl \in {<<"B">>, <<"1">>}, ncl \in {<<"C">>, <<"C", "1">>}}

\* every drawing of the anchor shapes, in a package without the drawing's
\* rels file
CallsWithoutDrawingRels ==
    {Call(entry, Xlsx(LayoutZf("no-drawing-rels", anchors), StdCells),
          <<"B">>, <<"C">>, 0) :
        entry \in Entries, anchors \in SeqsUpTo(AnchorShapes, MaxAnchors)}

\* a limit below zero
CallsBelowZero ==
    {Call(entry, Xlsx(StdZf(ThreeInB, StdMedia), StdCells), <<"B">>, <<"C">>, -1) :
        entry \in Entries}

\* pictures anchored at the same cell (B3), of both tags and different images
TieShapes ==
    {Pic("twoCellAnchor", 2, 1, "rId1"), Pic("twoCellAnchor", 2, 1, "rId3"),
     Pic("oneCellAnchor", 2, 1, "rId2"), Pic("oneCellAnchor", 2, 1, "rId3")}

CallsByTies ==
    {Call(entry, Xlsx(StdZf(anchors, StdMedia), StdCells), <<"B">>, <<"C">>, 0) :
        entry \in {"details", "with_total"}, anchors \in SeqsUpTo(TieShapes, MaxAnchors)}

\* two pictures in B, the anchors that lack a <from>, a <pic>, a blip or an
\* r:embed attribute, and a picture whose r:embed has no relationship
SkipShapes ==
    {Pic("twoCellAnchor", 4, 1, "rId1"), Pic("oneCellAnchor", 2, 1, "rId2"),
     AnchorEl("twoCellAnchor", FALSE, 2, 1, TRUE, TRUE, "rId3"),
     AnchorEl("oneCellAnchor", TRUE, 2, 1, FALSE, FALSE, NoEmbed),
     AnchorEl("twoCellAnchor", TRUE, 2, 1, TRUE, FALSE, NoEmbed),
     AnchorEl("twoCellAnchor", TRUE, 2, 1, TRUE, TRUE, NoEmbed),
     Pic("twoCellAnchor", 2, 1, "rId9")}

CallsBySkipped ==
    {Call("details", Xlsx(StdZf(anchors, StdMedia), StdCells), <<"B">>, <<"C">>, limit) :
        anchors \in SeqsUpTo(SkipShapes, MaxAnchors), limit \in {0, 1}}

\* pictures whose <from> lacks the <row>, the <col> or both, and a picture
\* at B3
MissingCellShapes ==
    {Pic("twoCellAnchor", NoChild, NoChild, "rId1"), Pic("twoCellAnchor", 2, NoChild, "rId2"),
     Pic("oneCellAnchor", NoChild, 1, "rId3"), Pic("twoCellAnchor", 2, 1, "rId1")}

CallsByMissingCell ==
    {Call("details", Xlsx(StdZf(anchors, StdMedia), StdCells), icl, <<"C">>, 0) :
        anchors \in SeqsUpTo(MissingCellShapes, MaxAnchors), icl \in {<<"A">>, <<"B">>}}

Calls ==
    CallsByMissingCell \cup CallsBySkipped \cup CallsByAnchors \cup CallsByNames
        \cup CallsByMedia \cup CallsByLayout
        \cup CallsWithoutDrawingRels \cup CallsBelowZero \cup CallsByTies

InitExtract ==
    /\ release = "lookup"
    /\ SeqIdle
    /\ HookIdle
    /\ AuthIdle
    /\ DbIdle
    /\ IpIdle
    /\ ProcIdle
    /\ NormIdle
    /\ ColIdle
    /\ PathIdle
    /\ NavIdle
    /\ call \in Calls
    /\ exPc = "start"
    /\ name_col_idx = 0
    /\ filtered = <<>>
    /\ total_available = 0
    /\ results = <<>>
    /\ used_names = <<>>
    /\ exRet = [err |-> "not-called", val |-> <<>>]

NextExtract ==
    \/ Begin
    \/ IterateDetails
    \/ IterateByColumn
    \/ IterateWithTotal
    \/ Return

SpecExtract == InitExtract /\ [][NextExtract]_vars

(***************************************************************************)
(* What the claims about the extraction are stated against: the archive    *)
(* and the worksheet of the call, read directly.                           *)
(***************************************************************************)
Zf == call.xlsx_bytes.zf
Ws == call.xlsx_bytes.ws
Finished == exPc \in {"returned", "raised"}

\* The records the caller received
Records == IF call.entry = "with_total" THEN exRet.val[1] ELSE exRet.val

\* The archive has the workbook, the worksheet, and the drawing linked from
\* the worksheet in the standard layout
HasWorkbook == {WORKBOOK_XML, WORKBOOK_RELS} \subseteq DOMAIN Zf
HasLinkedDrawing ==
    /\ HasWorkbook
    /\ {SHEET1_XML, SHEET1_RELS, DRAWING1_XML} \subseteq DOMAIN Zf
    /\ Zf[SHEET1_XML].drawing = "rId1"
    /\ Zf[SHEET1_RELS].rels = StdSheetRels
HasNoDrawing ==
    /\ HasWorkbook
    /\ SHEET1_XML \in DOMAIN Zf
    /\ Zf[SHEET1_XML].drawing = NoDrawingEl

\* The anchor elements of the drawing, in document order
DocAnchors == IF HasLinkedDrawing THEN Zf[DRAWING1_XML].anchors ELSE <<>>

\* The relationships of the drawing that have an id and a target
DocRels ==
    IF HasLinkedDrawing /\ DRAWING1_RELS \in DOMAIN Zf
    THEN {rel \in Range(Zf[DRAWING1_RELS].rels) : rel.Id # "" /\ rel.Target # <<>>}
    ELSE {}

IsPicture(el) == el.hasFrom /\ el.hasPic /\ el.hasBlip /\ el.embed # NoEmbed

\* The column and row of an anchor (a missing <col> or <row> reads as 0)
ColOf(el) == IF el.col = NoChild THEN 0 ELSE el.col
RowOf(el) == IF el.row = NoChild THEN 0 ELSE el.row

\* The column letters of the call name columns
ValidLetters == IsLetterString(call.image_col_letter) /\ IsLetterString(call.name_col_letter)

\* The positions, in the document, of the picture anchors whose
\* relationship id resolves and whose column is the image column
Survivors ==
    {i \in 1..Len(DocAnchors) :
        /\ IsPicture(DocAnchors[i])
        /\ \E rel \in DocRels : rel.Id = DocAnchors[i].embed
        /\ ColumnName(ColOf(DocAnchors[i]) + 1) = Upper(call.image_col_letter)}

\* The media part an anchor's relationship id leads to
MediaPathOf(el) ==
    LET rels == Zf[DRAWING1_RELS].rels
        k == CHOOSE k \in 1..Len(rels) :
                /\ rels[k].Id = el.embed /\ rels[k].Target # <<>>
                /\ \A m \in (k + 1)..Len(rels) : rels[m].Id # el.embed
    IN  Walk(<<"xl", "drawings">>, rels[k].Target)

SurvivorsReadable == \A i \in Survivors : MediaPathOf(DocAnchors[i]) \in DOMAIN Zf

\* C1: extract_images_details without a cap returns exactly one record per
\* picture anchor whose relationship id resolves in the drawing's
\* relationship map and whose column is the image column (as many records
\* with a given row and image as there are such anchors), no record for any
\* other anchor, and the records in ascending row order.
C1_OneRecordPerAnchorInRowOrder ==
    (/\ Finished /\ call.entry = "details" /\ call.limit = 0
     /\ HasLinkedDrawing /\ ValidLetters /\ SurvivorsReadable) =>
        /\ exPc = "returned"
        /\ Len(Records) = Cardinality(Survivors)
        /\ \A i \in Survivors :
              LET el == DocAnchors[i]
                  same == {j \in Survivors :
                              /\ RowOf(DocAnchors[j]) = RowOf(el)
                              /\ MediaPathOf(DocAnchors[j]) = MediaPathOf(el)}
                  recs == {k \in 1..Len(Records) :
                              /\ Records[k].row = RowOf(el) + 1
                              /\ Records[k].image_bytes.data = Zf[MediaPathOf(el)].data}
              IN  Cardinality(recs) = Cardinality(same)
        /\ \A k \in 1..(Len(Records) - 1) : Records[k].row <= Records[k + 1].row

C1_Witness ==
    /\ exPc = "returned" /\ call.entry = "details" /\ call.limit = 0
    /\ call.image_col_letter = <<"B">>
    /\ HasLinkedDrawing
    /\ DocAnchors = <<Pic("twoCellAnchor", 6, 1, "rId1"), Pic("twoCellAnchor", 4, 3, "rId1"),
                      Pic("twoCellAnchor", 2, 1, "rId1")>>
    /\ Len(Records) = 2
    /\ Records[1].row = 3 /\ Records[2].row = 7

\* The first n anchors of the filtered list can be read (and, by
\* extract_images_by_column, decoded)
Usable(ai) ==
    /\ ai.media_path \in DOMAIN Zf
    /\ call.entry = "by_column" => Zf[ai.media_path].format # "undecodable"
FirstUsable(n) == \A k \in 1..n : k <= Len(filtered) => Usable(filtered[k])

OverCap == call.limit > 0 /\ Len(filtered) > call.limit

\* C5 as stated: extract_images_details and extract_images_by_column fail with
\* TooManyImages if and only if max_images is positive and the number of
\* anchors surviving the column filter is greater than max_images.
C5_Original ==
    (Finished /\ call.entry \in {"details", "by_column"}) =>
        (exRet.err = "TooManyImages" <=> OverCap)

\* C5 amended: the two functions fail with TooManyImages only if max_images is
\* positive and more than max_images anchors survive the filter; in that case
\* they never return records, and the error is TooManyImages whenever the
\* images of the surviving anchors can all be read (and, by
\* extract_images_by_column, decoded), the error of a read or a decoding
\* otherwise possible.  With no more survivors than max_images, all usable,
\* extraction returns one record for each.
C5_TooManyImages ==
    (Finished /\ call.entry \in {"details", "by_column"}) =>
        /\ exRet.err = "TooManyImages" => OverCap
        /\ OverCap => exPc = "raised"
        /\ (OverCap /\ FirstUsable(Len(filtered))) => exRet.err = "TooManyImages"
        /\ (~OverCap /\ FirstUsable(Len(filtered)) /\ Len(filtered) > 0) =>
              /\ exPc = "returned"
              /\ Len(Records) = Len(filtered)

C5_Witness ==
    /\ exPc = "raised" /\ call.entry = "details"
    /\ call.limit = 2 /\ Len(filtered) = 3
    /\ exRet.err = "TooManyImages"

\* The value of the name cell of a record: the cell of the name column at the
\* record's row, None when the worksheet has no such cell
NameColumn == CHOOSE n \in 1..26 : ColumnName(n) = Upper(call.name_col_letter)
NameCellAt(row) ==
    IF <<row, NameColumn>> \in DOMAIN Ws.cells THEN Ws.cells[<<row, NameColumn>>] ELSE None

\* The decimal numeral of a number below 100
Decimal(n) ==
    IF n < 10 THEN <<DigitChars[n + 1]>>
    ELSE <<DigitChars[(n \div 10) + 1], DigitChars[(n % 10) + 1]>>

C7_NameNeverEmpty ==
    (exPc = "returned" /\ call.entry \in {"details", "with_total"}) =>
        \A k \in 1..Len(Records) : Records[k].name_raw # <<>>

\* C8: the file names returned by one call of extract_images_by_column are
\* pairwise distinct.
C8_FilenamesDistinct ==
    (exPc = "returned" /\ call.entry = "by_column") =>
        \A j, k \in 1..Len(Records) :
            j # k => Records[j].filename # Records[k].filename

\* C9 as stated: when a well-formed package has no picture anchor surviving
\* the image-column filter (no drawing at all, or all images in other
\* columns), extraction ends with the NoImagesFound error.
C9_Original ==
    (/\ Finished /\ ValidLetters
     /\ HasNoDrawing \/ (HasLinkedDrawing /\ Survivors = {})) =>
        exRet.err = "NoImagesFound"

\* C9 amended: in that case extraction returns an empty list of records (and
\* a total of 0), a successful result; no entry point ever ends with a
\* NoImagesFound error.
C9_EmptyResultNotError ==
    /\ exRet.err # "NoImagesFound"
    /\ (/\ Finished /\ ValidLetters
        /\ HasNoDrawing \/ (HasLinkedDrawing /\ Survivors = {})) =>
           /\ exPc = "returned"
           /\ exRet.err = ""
           /\ Records = <<>>
           /\ call.entry = "with_total" => exRet.val[2] = 0

C9_Witness ==
    /\ exPc = "returned"
    /\ call.image_col_letter = <<"d">>
    /\ HasLinkedDrawing
    /\ Len(DocAnchors) = 2
    /\ Survivors = {}
    /\ Records = <<>>

\* The number of records a call that returns owes its caller: one for each
\* surviving anchor, or for each of the first soft_limit of them
Owed ==
    IF call.entry = "with_total" /\ call.limit > 0 /\ call.limit < Len(filtered)
    THEN call.limit
    ELSE Len(filtered)

\* C12: an extraction call that fails (InvalidColumn, MalformedPackage,
\* TooManyImages, an unreadable media part, ...) hands its caller no record at
\* all, whatever it had collected; a call that returns hands over the complete
\* list, one record per surviving anchor in row order (the first soft_limit
\* of them when extract_images_details_with_total is asked to truncate).
C12_AllOrNothing ==
    /\ exPc = "raised" => (exRet.err # "" /\ exRet.val = <<>>)
    /\ exPc = "returned" =>
          /\ exRet.err = ""
          /\ Len(Records) = Owed
          /\ \A k \in 1..Len(Records) :
                /\ k <= Len(filtered)
                /\ call.entry # "by_column" => Records[k].row = filtered[k].row + 1

C12_Witness ==
    /\ exPc = "raised" /\ exRet.err = "KeyError"
    /\ call.entry = "details"
    /\ Len(filtered) = 3 /\ Len(results) = 2
    /\ exRet.val = <<>>

StoredImage(el) ==
    [data |-> Zf[MediaPathOf(el)].data, format |-> Zf[MediaPathOf(el)].format,
     reencoded |-> FALSE]

\* C14: every record returned by extract_images_details and
\* extract_images_details_with_total carries, unaltered and in its stored
\* encoding, the package entry at the media path to which the relationship id
\* of an anchor at the record's row resolves in the drawing's relationship map.
C14_BytesAsStored ==
    (exPc = "returned" /\ call.entry \in {"details", "with_total"}) =>
        \A k \in 1..Len(Records) :
            /\ ~Records[k].image_bytes.reencoded
            /\ \E i \in Survivors :
                  /\ RowOf(DocAnchors[i]) + 1 = Records[k].row
                  /\ Records[k].image_bytes = StoredImage(DocAnchors[i])

C14_Witness ==
    /\ exPc = "returned" /\ call.entry = "with_total"
    /\ \E k \in 1..Len(Records) :
          /\ Records[k].row = 3
          /\ Records[k].image_bytes =
                [data |-> "img2", format |-> "jpeg", reencoded |-> FALSE]
          /\ Zf[MEDIA2].format = "jpeg"

\* The zero-based rows of the surviving anchors, and the row at position k
\* when they are put in ascending order
SurvivorRows(below) ==
    Cardinality({i \in Survivors : RowOf(DocAnchors[i]) <= below})
RowAt(k) ==
    CHOOSE r \in {RowOf(DocAnchors[i]) : i \in Survivors} :
        SurvivorRows(r - 1) < k /\ k <= SurvivorRows(r)

Min(a, b) == IF a < b THEN a ELSE b

\* C16: extract_images_details_with_total never raises TooManyImages; when it
\* returns (results, total), total is the number of anchors surviving the
\* column filter, and results are the first min(L, total) of them in row
\* order for a positive soft_limit L, all of them for a soft_limit that is
\* None, 0 or negative; it returns whenever the images of the survivors can
\* be read.
C16_SoftLimitTruncates ==
    (Finished /\ call.entry = "with_total") =>
        /\ exRet.err # "TooManyImages"
        /\ (HasLinkedDrawing /\ ValidLetters /\ SurvivorsReadable) => exPc = "returned"
        /\ exPc = "returned" =>
              LET total == Cardinality(Survivors) IN
              /\ exRet.val[2] = total
              /\ Len(Records) = IF call.limit > 0 THEN Min(call.limit, total) ELSE total
              /\ \A k \in 1..Len(Records) :
                    /\ Records[k].row = RowAt(k) + 1
                    /\ \E i \in Survivors :
                          /\ RowOf(DocAnchors[i]) = RowAt(k)
                          /\ Records[k].image_bytes = StoredImage(DocAnchors[i])

C16_Witness ==
    /\ exPc = "returned" /\ call.entry = "with_total"
    /\ call.limit = 2
    /\ DocAnchors = <<Pic("twoCellAnchor", 6, 1, "rId1"), Pic("twoCellAnchor", 4, 1, "rId1"),
                      Pic("twoCellAnchor", 2, 1, "rId1")>>
    /\ exRet.val[2] = 3
    /\ Len(Records) = 2
    /\ Records[1].row = 3 /\ Records[2].row = 5

\* C18: an image whose bytes cannot be decoded never aborts the extraction:
\* when the media parts of the surviving anchors are all in the archive and
\* the cap is not exceeded, every entry point returns, whether or not the
\* bytes can be decoded.
C18_UndecodableNeverAborts ==
    (/\ Finished /\ HasLinkedDrawing /\ ValidLetters
     /\ SurvivorsReadable /\ ~OverCap) =>
        /\ exPc = "returned"
        /\ exRet.err # "UnidentifiedImageError"

(***************************************************************************)
(* Specification of the location of the first worksheet:                   *)
(* _get_first_sheet_paths applied to archives whose workbook part and      *)
(* workbook rels are drawn from bounded sets.                              *)
(***************************************************************************)
MaxWbRels == 2

\* The r:id of the <sheet> elements of the workbook, in document order ("" is
\* a <sheet> without the attribute)
SheetLists == {<<>>, <<"">>, <<"rId1">>, <<"rId2", "rId1">>}

WbRels ==
    {Rel(id, type, tgt) :
        id \in {"rId1", "rId2"},
        type \in {REL_TYPE_WORKSHEET, REL_TYPE_STYLES},
        tgt \in {<<>>, <<"worksheets", "sheet1.xml">>, <<"worksheets", "sheet2.xml">>}}

SheetArchives ==
    {Part(hasWb, WORKBOOK_XML, [kind |-> "workbook", sheets |-> sheets])
        @@ Part(hasRels, WORKBOOK_RELS, RelsPart(rels))
        @@ (SHEET1_XML :> SheetPart(NoDrawingEl)) :
        hasWb \in BOOLEAN, sheets \in SheetLists,
        hasRels \in BOOLEAN, rels \in SeqsUpTo(WbRels, MaxWbRels)}

GetFirstSheetPaths ==
    /\ navOut.err = "not-called"
    /\ navOut' = _get_first_sheet_paths(navZf)
    /\ UNCHANGED <<release, hookVars, authVars, dbVars, ipVars,
                   seqVars, normVars, procVars, colVars, pathVars, navZf, exVars>>

InitSheets ==
    /\ release = "lookup"
    /\ SeqIdle
    /\ HookIdle
    /\ AuthIdle
    /\ DbIdle
    /\ IpIdle
    /\ ProcIdle
    /\ NormIdle
    /\ ColIdle
    /\ PathIdle
    /\ navZf \in SheetArchives
    /\ navOut = NotCalled
    /\ ExIdle

NextSheets == GetFirstSheetPaths

SpecSheets == InitSheets /\ [][NextSheets]_vars

\* What the workbook and its rels hold, read off the archive
WbPresent == WORKBOOK_XML \in DOMAIN navZf
WbRelsPresent == WORKBOOK_RELS \in DOMAIN navZf
WbSheets == navZf[WORKBOOK_XML].sheets
WbRelEntries == navZf[WORKBOOK_RELS].rels
FirstSheetId == WbSheets[1]

\* The first relationship with the first sheet's id, and the first
\* relationship whose Type ends in "/worksheet" (0: there is none)
ExactMatch ==
    IF \E k \in 1..Len(WbRelEntries) : WbRelEntries[k].Id = FirstSheetId
    THEN CHOOSE k \in 1..Len(WbRelEntries) :
            /\ WbRelEntries[k].Id = FirstSheetId
            /\ \A m \in 1..(k - 1) : WbRelEntries[m].Id # FirstSheetId
    ELSE 0
FallbackMatch ==
    IF \E k \in 1..Len(WbRelEntries) : WbRelEntries[k].Type = REL_TYPE_WORKSHEET
    THEN CHOOSE k \in 1..Len(WbRelEntries) :
            /\ WbRelEntries[k].Type = REL_TYPE_WORKSHEET
            /\ \A m \in 1..(k - 1) : WbRelEntries[m].Type # REL_TYPE_WORKSHEET
    ELSE 0
ResolvesExact == ExactMatch # 0 /\ WbRelEntries[ExactMatch].Target # <<>>
ResolvesByFallback == FallbackMatch # 0 /\ WbRelEntries[FallbackMatch].Target # <<>>

\* The worksheet path a workbook relationship leads to: its target, taken
\* from the directory of the workbook
SheetPathOf(k) == Walk(<<"xl">>, WbRelEntries[k].Target)

\* The four failures the statement lists
ListedFailure ==
    \/ ~WbPresent
    \/ ~WbRelsPresent
    \/ WbSheets = <<>>
    \/ ~ResolvesExact /\ ~ResolvesByFallback

SheetsCalled == navOut.err # "not-called"

\* C11 as stated: _get_first_sheet_paths fails with MalformedPackage in the
\* four listed cases (workbook absent, rels absent, no <sheet> element, the
\* id resolving neither exactly nor by the fallback) and otherwise returns the
\* worksheet path of the exact match when it has a target, of the fallback
\* relationship when it has not.
C11_Original ==
    SheetsCalled =>
        /\ ListedFailure => navOut.err = "MalformedPackage"
        /\ ~ListedFailure =>
              /\ navOut.err = ""
              /\ navOut.val[1] = SheetPathOf(IF ResolvesExact THEN ExactMatch
                                             ELSE FallbackMatch)

\* C11 amended: it fails with MalformedPackage in the four listed cases and
\* also when the first <sheet> element has no relationship id, whatever the
\* rels hold; in every other case it returns the worksheet path of the first
\* relationship with the sheet's id when that relationship has a target, else
\* of the first worksheet-typed relationship, together with the path of that
\* worksheet's rels file.
C11_FirstSheetPaths ==
    SheetsCalled =>
        LET fails == ListedFailure \/ FirstSheetId = "" IN
        /\ fails => navOut.err = "MalformedPackage"
        /\ ~fails =>
              /\ navOut.err = ""
              /\ navOut.val[1] = SheetPathOf(IF ResolvesExact THEN ExactMatch
                                             ELSE FallbackMatch)
              /\ navOut.val[2] =
                    <<"xl", "worksheets", "_rels", navOut.val[1][3] \o ".rels">>

\* The sheet's id has a relationship without target, and the worksheet-typed
\* relationship that follows is taken
C11_Witness ==
    /\ navOut.err = ""
    /\ WbSheets = <<"rId2", "rId1">>
    /\ WbRelEntries = <<Rel("rId2", REL_TYPE_STYLES, <<>>),
                        Rel("rId1", REL_TYPE_WORKSHEET, <<"worksheets", "sheet2.xml">>)>>
    /\ navOut.val = <<<<"xl", "worksheets", "sheet2.xml">>,
                      <<"xl", "worksheets", "_rels", "sheet2.xml.rels">>>>

(***************************************************************************)
(* Specification of successive calls: when a call has returned or raised,  *)
(* the next one is made, of any entry point with any of the arguments      *)
(* below.  The calls share nothing but the module: the locals of a call    *)
(* are assigned by the call itself (Begin), and the values the variables   *)
(* of the model still hold from the call before stand for a frame that is  *)
(* gone.                                                                   *)
(***************************************************************************)
MaxCalls == 3

\* Three pictures in B named a, a, a_1; the same drawing with the third media
\* part missing
SeqWorkbooks ==
    {Xlsx(StdZf(ThreeInB, StdMedia),
          NameCells(Text(<<"a">>), Text(<<"a">>), Text(<<"a", "_", "1">>))),
     Xlsx(StdZf(ThreeInB, Media(MEDIA1, "img1", "png") @@ Media(MEDIA2, "img2", "jpeg")
                              @@ Media(MEDIA3, "img3", "missing")),
          StdCells)}

SeqCalls ==
    {Call(entry, w, <<"B">>, <<"C">>, limit) :
        entry \in Entries, w \in SeqWorkbooks, limit \in {0, 2}}

\* The caller, having the outcome of one call, makes the next
Invoke(c) ==
    /\ exPc \in {"returned", "raised"}
    /\ Len(history) + 1 < MaxCalls
    /\ history' = Append(history, [call |-> call, pc |-> exPc, ret |-> exRet])
    /\ call' = c
    /\ exPc' = "start"
    /\ exRet' = [err |-> "not-called", val |-> <<>>]
    /\ UNCHANGED <<release, hookVars, authVars, dbVars, ipVars,
                   normVars, procVars, colVars, pathVars, navVars,
                   name_col_idx, filtered, total_available, results, used_names>>

InitSeq ==
    /\ release = "lookup"
    /\ SeqIdle
    /\ HookIdle
    /\ AuthIdle
    /\ DbIdle
    /\ IpIdle
    /\ ProcIdle
    /\ NormIdle
    /\ ColIdle
    /\ PathIdle
    /\ NavIdle
    /\ call \in SeqCalls
    /\ exPc = "start"
    /\ name_col_idx = 0
    /\ filtered = <<>>
    /\ total_available = 0
    /\ results = <<>>
    /\ used_names = <<>>
    /\ exRet = [err |-> "not-called", val |-> <<>>]

NextSeq ==
    \/ Begin
    \/ IterateDetails
    \/ IterateByColumn
    \/ IterateWithTotal
    \/ Return
    \/ \E c \in SeqCalls : Invoke(c)

SpecSeq == InitSeq /\ [][NextSeq]_vars

\* The calls that have ended, with their outcomes, in the order made
Outcomes ==
    IF Finished
    THEN Append(history, [call |-> call, pc |-> exPc, ret |-> exRet])
    ELSE history

\* C15: two calls with the same entry point, workbook bytes, image column,
\* name column and cap have the same outcome (the same error, or the same
\* records in the same order), whatever calls were made before or between
\* them.
C15_SameCallSameOutcome ==
    \A i, j \in 1..Len(Outcomes) :
        Outcomes[i].call = Outcomes[j].call =>
            /\ Outcomes[i].pc = Outcomes[j].pc
            /\ Outcomes[i].ret = Outcomes[j].ret

C15_Witness ==
    /\ Len(history) = 2
    /\ exPc = "returned"
    /\ call.entry = "by_column"
    /\ history[1].call = call
    /\ history[2].call # call
    /\ history[2].call.entry = "by_column"
    /\ history[1].ret = exRet
    /\ Len(exRet.val) = 3

(***************************************************************************)
(* File names: normalize, the same statements in /process (main.py) and in *)
(* ImageProcessor.normalize.                                               *)
(***************************************************************************)
NAME_LIMIT == 80

LowerChar(c) ==
    IF IsUpper(c)
    THEN LowerLetters[CHOOSE i \in 1..26 : UpperLetters[i] = c]
    ELSE c

\* n.replace(" ", "_")
ReplaceSpaces(n) == [i \in 1..Len(n) |-> IF n[i] = " " THEN "_" ELSE n[i]]

\* re.sub(r"[\\/:*?\"<>|]+", "", n)
IllegalChars == {"\\", "/", ":", "*", "?", "\"", "<", ">", "|"}
RemoveIllegal(n) == SelectSeq(n, LAMBDA c : c \notin IllegalChars)

\* re.sub(r"_+", "_", n)
\* (of each run of underscores the first is kept)
CollapseUnderscores(n) ==
    LET kept == SelectSeq([i \in 1..Len(n) |-> i],
                          LAMBDA i : ~(n[i] = "_" /\ i > 1 /\ n[i - 1] = "_"))
    IN  [j \in 1..Len(kept) |-> n[kept[j]]]

\* n.lower()
Lower(n) == [i \in 1..Len(n) |-> LowerChar(n[i])]

\* n[:limit]
Prefix(n, limit) == IF Len(n) > limit THEN SubSeq(n, 1, limit) ELSE n

\* Mutant of normalize: the underscores are collapsed before the illegal
\* characters are removed.
normalize_CollapseFirst(name) ==
    LET n == Prefix(Lower(RemoveIllegal(CollapseUnderscores(ReplaceSpaces(Strip(name))))),
                    NAME_LIMIT)
    IN  IF n = <<>> THEN IMAGE ELSE n

normalize(name) ==
    LET n == Prefix(Lower(CollapseUnderscores(RemoveIllegal(ReplaceSpaces(Strip(name))))),
                    NAME_LIMIT)
    IN  IF n = <<>> THEN IMAGE ELSE n

(***************************************************************************)
(* Specification of normalize: applied to every short name over a small    *)
(* alphabet and to names whose length is about the limit.                  *)
(***************************************************************************)
MaxNameLen == 3
MaxAffixLen == 1

NormChars == {"A", "b", " ", "_", "*", "/", "\t"}

\* k times the letter a
Run(k) == [i \in 1..k |-> "a"]

NormNames ==
    SeqsUpTo(NormChars, MaxNameLen)
        \cup {pre \o Run(k) \o post :
                 pre \in SeqsUpTo(NormChars, MaxAffixLen),
                 post \in SeqsUpTo(NormChars, MaxAffixLen),
                 k \in (NAME_LIMIT - 2)..(NAME_LIMIT + 1)}

Normalize ==
    /\ normOut.err = "not-called"
    /\ normOut' = Ok(normalize(normIn))
    /\ UNCHANGED <<release, hookVars, authVars, dbVars, ipVars,
                   seqVars, procVars, normIn, colVars, pathVars, navVars, exVars>>

InitNorm ==
    /\ release = "lookup"
    /\ SeqIdle
    /\ HookIdle
    /\ AuthIdle
    /\ DbIdle
    /\ IpIdle
    /\ ProcIdle
    /\ ColIdle
    /\ PathIdle
    /\ NavIdle
    /\ ExIdle
    /\ normIn \in NormNames
    /\ normOut = [err |-> "not-called", val |-> <<>>]

NextNorm == Normalize

SpecNorm == InitNorm /\ [][NextNorm]_vars

\* What is left of a name when it is trimmed and its illegal characters are
\* taken out (the spaces inside it count: they become underscores)
LeftOfName == SelectSeq(Strip(normIn), LAMBDA c : c \notin IllegalChars)

\* C17: normalize returns a name of 1 to 80 characters without a space,
\* without any of \ / : * ? " < > |, without an upper-case ASCII letter and
\* without two underscores in a row; it is the placeholder "image" when
\* trimming and removing the illegal characters leave nothing, and otherwise
\* a name that begins with the first character left, in lower case (a space
\* as an underscore).
C17_NormalizedNameIsSafe ==
    normOut.err = "" =>
        LET out == normOut.val IN
        /\ 1 <= Len(out) /\ Len(out) <= 80
        /\ \A i \in 1..Len(out) :
              /\ out[i] # " "
              /\ out[i] \notin {"\\", "/", ":", "*", "?", "\"", "<", ">", "|"}
              /\ out[i] \notin Range(UpperLetters)
              /\ i < Len(out) => ~(out[i] = "_" /\ out[i + 1] = "_")
        /\ LeftOfName = <<>> => out = <<"i", "m", "a", "g", "e">>
        /\ LeftOfName # <<>> =>
              out[1] = (IF LeftOfName[1] = " " THEN "_" ELSE LowerChar(LeftOfName[1]))

\* A name that is still longer than the limit when trimmed and cleaned is
\* cut to its first 80 characters
C17_Witness ==
    /\ normOut.err = ""
    /\ normIn = <<"*">> \o Run(81) \o <<" ">>
    /\ Len(normOut.val) = 80
    /\ normOut.val = Run(80)

(***************************************************************************)
(* The /process endpoint (main.py).  An upload is [filename, size_mb,      *)
(* contents]: the client's file name, the size of the file in megabytes,   *)
(* and the workbook bytes as the extraction takes them.                    *)
(***************************************************************************)
MAX_UPLOAD_MB == 20

\* extract_images_details as one call: the statements before the loop, then
\* the loop body over the filtered list until it ends or raises
RECURSIVE DetailsLoop(_, _, _, _, _)
DetailsLoop(xlsx_bytes, nci, max_images, list, st) ==
    IF st.err # "" \/ Len(st.results) = Len(list) THEN st
    ELSE DetailsLoop(xlsx_bytes, nci, max_images, list,
                     DetailsBody(xlsx_bytes, nci, max_images, st.results,
                                 list[Len(st.results) + 1]))

\* "return results" after the loop, or the exception the loop raised
DetailsReturn(st) == IF st.err # "" THEN Raise(st.err) ELSE Ok(st.results)

\* The statements of extract_images_details after the common beginning, p
\* what the beginning leaves
DetailsAfter(xlsx_bytes, max_images, p) ==
    IF p.err # "" THEN Raise(p.err)
    ELSE IF p.nodrawing THEN Ok(<<>>)
    ELSE DetailsReturn(DetailsLoop(xlsx_bytes, p.name_col_idx, max_images, p.filtered,
                                   Locals("", InitialResults(<<>>), <<>>)))

extract_images_details(xlsx_bytes, image_col_letter, name_col_letter, max_images, rel) ==
    DetailsAfter(xlsx_bytes, max_images,
                 Prepare(xlsx_bytes, image_col_letter, name_col_letter, rel))

\* The exceptions of the extraction that are ValueError ("except ValueError")
IsValueError(err) ==
    err \in {"InvalidColumn", "MalformedPackage", "TooManyImages", "ValueError"}

\* mapping.get(fmt, "png"), fmt the lower-cased format PIL identifies, "png"
\* when Image.open raises
detect_extension(image_bytes) ==
    LET fmt == IF image_bytes.format = "undecodable" THEN "png" ELSE image_bytes.format
    IN  CASE fmt \in {"jpeg", "jpg"} -> <<"j", "p", "g">>
          [] fmt = "png" -> <<"p", "n", "g">>
          [] fmt = "webp" -> <<"w", "e", "b", "p">>
          [] fmt = "gif" -> <<"g", "i", "f">>
          [] fmt = "tiff" -> <<"t", "i", "f">>
          [] fmt = "bmp" -> <<"b", "m", "p">>
          [] OTHER -> <<"p", "n", "g">>

\* hashlib.sha1(b).hexdigest(): equal for equal bytes, taken to differ for
\* different bytes
sha1hex(b) == [sha1 |-> <<b.data, b.format>>]

\* original_name.lower().endswith(".xlsx")
DOT_XLSX == <<".", "x", "l", "s", "x">>
EndsWith(name, suffix) ==
    /\ Len(name) >= Len(suffix)
    /\ SubSeq(name, Len(name) - Len(suffix) + 1, Len(name)) = suffix

\* upload.filename or "uploaded.xlsx"
UPLOADED_XLSX == <<"u", "p", "l", "o", "a", "d", "e", "d">> \o DOT_XLSX
OriginalName(upload) == IF upload.filename = <<>> THEN UPLOADED_XLSX ELSE upload.filename

\* The locals of /process that the loop over the items of one file changes
Tally(tot, w, same, diff, sn, rows, entries) ==
    [total_images |-> tot, written |-> w, overwritten_same |-> same,
     overwritten_diff |-> diff, seen |-> sn, manifest_rows |-> rows,
     zip_entries |-> entries]

\* Mutant of ItemBody: total_images is not counted up.
ItemBody_NoCount(t, original_name, item) ==
    LET base == normalize(item.name_raw)
        ext == detect_extension(item.image_bytes)
        final_name == base \o <<".">> \o ext
        digest == sha1hex(item.image_bytes)
        known == final_name \in DOMAIN t.seen
        same == known /\ t.seen[final_name] = digest
        action == IF ~known THEN "written"
                  ELSE IF same THEN "overwritten_same" ELSE "overwritten_diff"
    IN  Tally(t.total_images,
              IF known THEN t.written ELSE t.written + 1,
              IF same THEN t.overwritten_same + 1 ELSE t.overwritten_same,
              IF known /\ ~same THEN t.overwritten_diff + 1 ELSE t.overwritten_diff,
              [k \in DOMAIN t.seen \cup {final_name} |->
                  IF k = final_name THEN digest ELSE t.seen[k]],
              Append(t.manifest_rows,
                     [source_file |-> original_name, sheet |-> item.sheet,
                      row |-> item.row, final_name |-> final_name,
                      hash |-> digest, action |-> action]),
              Append(t.zip_entries,
                     [name |-> <<"i", "m", "a", "g", "e", "s", "/">> \o final_name,
                      bytes |-> item.image_bytes]))

\* The body of "for item in details"
ItemBody(t, original_name, item) ==
    LET base == normalize(item.name_raw)
        ext == detect_extension(item.image_bytes)
        final_name == base \o <<".">> \o ext
        digest == sha1hex(item.image_bytes)
        known == final_name \in DOMAIN t.seen
        same == known /\ t.seen[final_name] = digest
        action == IF ~known THEN "written"
                  ELSE IF same THEN "overwritten_same" ELSE "overwritten_diff"
    IN  Tally(t.total_images + 1,
              IF known THEN t.written ELSE t.written + 1,
              IF same THEN t.overwritten_same + 1 ELSE t.overwritten_same,
              IF known /\ ~same THEN t.overwritten_diff + 1 ELSE t.overwritten_diff,
              [k \in DOMAIN t.seen \cup {final_name} |->
                  IF k = final_name THEN digest ELSE t.seen[k]],
              Append(t.manifest_rows,
                     [source_file |-> original_name, sheet |-> item.sheet,
                      row |-> item.row, final_name |-> final_name,
                      hash |-> digest, action |-> action]),
              Append(t.zip_entries,
                     [name |-> <<"i", "m", "a", "g", "e", "s", "/">> \o final_name,
                      bytes |-> item.image_bytes]))

RECURSIVE ItemsLoop(_, _, _)
ItemsLoop(t, original_name, details) ==
    IF details = <<>> THEN t
    ELSE ItemsLoop(ItemBody(t, original_name, Head(details)), original_name, Tail(details))

\* raise HTTPException(status_code=..., detail=...) / return JSONResponse(500)
ErrorResponse(status, detail) ==
    [status |-> status, detail |-> detail, entries |-> <<>>, report |-> <<>>]

\* The checks before the loop: the form fields' lengths (Form(min_length=1,
\* max_length=2), answered 422 by the framework), the files, the columns
ProcessValidate ==
    /\ pPc = "start"
    /\ LET img == column_letter_to_index(imageColumn, release)
           name == column_letter_to_index(nameColumn, release)
           refused ==
               IF Len(imageColumn) \notin 1..2 \/ Len(nameColumn) \notin 1..2
               THEN ErrorResponse(422, "validation")
               ELSE IF files = <<>> THEN ErrorResponse(400, "No files uploaded")
               ELSE IF MAX_FILES > 0 /\ Len(files) > MAX_FILES
               THEN ErrorResponse(400, "Too many files")
               ELSE IF img.err # "" \/ name.err # ""
               THEN ErrorResponse(400, "Invalid column letter(s)")
               ELSE NoResponse
       IN  IF refused # NoResponse
           THEN pPc' = "done" /\ response' = refused
           ELSE pPc' = "loop" /\ UNCHANGED response
    /\ UNCHANGED <<release, hookVars, authVars, dbVars, ipVars,
                   colVars, pathVars, navVars, exVars, seqVars, normVars,
                   files, imageColumn, nameColumn, MAX_IMAGES, MAX_FILES, handled,
                   total_images, written, overwritten_same, overwritten_diff, seen,
                   manifest_rows, zip_entries>>

\* The checks of one upload, details the outcome of its extraction: the
\* response that ends the request, or NoResponse
UploadRefused(upload, details) ==
    IF ~EndsWith(Lower(OriginalName(upload)), DOT_XLSX)
    THEN ErrorResponse(400, "Only .xlsx files are supported")
    ELSE IF upload.size_mb > MAX_UPLOAD_MB
    THEN ErrorResponse(400, "File too large")
    ELSE IF details.err # "" /\ IsValueError(details.err)
    THEN ErrorResponse(400, details.err)
    ELSE IF details.err # "" THEN ErrorResponse(500, "Processing failed")
    ELSE NoResponse

\* What one upload leaves: the request ended by refused, or the locals as
\* the loop over its items left them
UploadDone(refused, t) ==
    IF refused # NoResponse
    THEN /\ pPc' = "done"
         /\ response' = refused
         /\ UNCHANGED <<handled, total_images, written, overwritten_same,
                        overwritten_diff, seen, manifest_rows, zip_entries>>
    ELSE /\ handled' = handled + 1
         /\ total_images' = t.total_images
         /\ written' = t.written
         /\ overwritten_same' = t.overwritten_same
         /\ overwritten_diff' = t.overwritten_diff
         /\ seen' = t.seen
         /\ manifest_rows' = t.manifest_rows
         /\ zip_entries' = t.zip_entries
         /\ UNCHANGED <<pPc, response>>

\* The body of "for upload in ordered_uploads", details the outcome of the
\* upload's extraction
UploadBody(upload, details) ==
    UploadDone(UploadRefused(upload, details),
               ItemsLoop(Tally(total_images, written, overwritten_same,
                               overwritten_diff, seen, manifest_rows, zip_entries),
                         OriginalName(upload), details.val))

\* One iteration of "for upload in ordered_uploads"
ProcessUpload ==
    /\ pPc = "loop"
    /\ handled < Len(files)
    /\ UploadBody(files[handled + 1],
                  extract_images_details(files[handled + 1].contents, imageColumn,
                                         nameColumn,
                                         IF MAX_IMAGES > 0 THEN MAX_IMAGES ELSE 0,
                                         release))
    /\ UNCHANGED <<release, hookVars, authVars, dbVars, ipVars,
                   colVars, pathVars, navVars, exVars, seqVars, normVars,
                   files, imageColumn, nameColumn, MAX_IMAGES, MAX_FILES>>

\* After the loop: no image at all is an error, else the archive with the
\* report is sent
ProcessRespond ==
    /\ pPc = "loop"
    /\ handled = Len(files)
    /\ pPc' = "done"
    /\ response' =
          IF total_images = 0 THEN ErrorResponse(400, "No images found")
          ELSE [status |-> 200, detail |-> "", entries |-> zip_entries,
                report |-> manifest_rows]
    /\ UNCHANGED <<release, hookVars, authVars, dbVars, ipVars,
                   colVars, pathVars, navVars, exVars, seqVars, normVars,
                   files, imageColumn, nameColumn, MAX_IMAGES, MAX_FILES, handled,
                   total_images, written, overwritten_same, overwritten_diff, seen,
                   manifest_rows, zip_entries>>

(***************************************************************************)
(* Specification of /process: one request with up to MaxFiles uploads      *)
(* drawn from the workbooks below.                                         *)
(***************************************************************************)
MaxFiles == 3

Upload(filename, size_mb, contents) ==
    [filename |-> filename, size_mb |-> size_mb, contents |-> contents]

XlsxName(c) == <<c>> \o DOT_XLSX

\* two pictures in B (rows 3 and 5; C3 is "p1", C5 is empty)
WbTwo ==
    Xlsx(StdZf(<<Pic("twoCellAnchor", 2, 1, "rId1"), Pic("oneCellAnchor", 4, 1, "rId2")>>,
               StdMedia), StdCells)
\* one picture in B at row 3, another image than WbTwo's
WbOne == Xlsx(StdZf(<<Pic("twoCellAnchor", 2, 1, "rId3")>>, StdMedia), StdCells)
\* no drawing at all; a picture in D only
WbNoDrawing == Xlsx(LayoutZf("no-drawing-element", <<>>), StdCells)
WbOtherColumn == Xlsx(StdZf(<<Pic("twoCellAnchor", 4, 3, "rId1")>>, StdMedia), StdCells)
\* the worksheet part is missing
WbNoSheet == Xlsx(LayoutZf("no-sheet", <<>>), StdCells)
\* three pictures in B
WbThree == Xlsx(StdZf(ThreeInB, StdMedia), StdCells)

Uploads ==
    {Upload(XlsxName("a"), 1, WbTwo), Upload(XlsxName("b"), 1, WbOne),
     Upload(XlsxName("e"), 1, WbNoDrawing), Upload(XlsxName("w"), 1, WbOtherColumn),
     Upload(XlsxName("m"), 1, WbNoSheet), Upload(XlsxName("t"), 1, WbThree),
     Upload(<<"c", ".", "c", "s", "v">>, 1, WbTwo),
     Upload(XlsxName("l"), MAX_UPLOAD_MB + 1, WbTwo)}

InitProcess ==
    /\ release = "lookup"
    /\ SeqIdle
    /\ HookIdle
    /\ AuthIdle
    /\ DbIdle
    /\ IpIdle
    /\ NormIdle
    /\ ColIdle
    /\ PathIdle
    /\ NavIdle
    /\ ExIdle
    /\ files \in SeqsUpTo(Uploads, MaxFiles)
    /\ imageColumn \in {<<"B">>, <<"1">>}
    /\ nameColumn = <<"C">>
    /\ MAX_IMAGES \in {0, 2}
    /\ MAX_FILES \in {0, 2}
    /\ pPc = "start"
    /\ handled = 0
    /\ total_images = 0
    /\ written = 0
    /\ overwritten_same = 0
    /\ overwritten_diff = 0
    /\ seen = <<>>
    /\ manifest_rows = <<>>
    /\ zip_entries = <<>>
    /\ response = NoResponse

NextProcess == ProcessValidate \/ ProcessUpload \/ ProcessRespond

SpecProcess == InitProcess /\ [][NextProcess]_vars

\* The number of pictures a workbook of the request holds in the image
\* column: the picture anchors of its linked drawing whose relationship id
\* has a target in the drawing's rels and whose column has that letter
PictureCount(xlsx_bytes) ==
    LET zf == xlsx_bytes.zf
        linked ==
            /\ {WORKBOOK_XML, WORKBOOK_RELS, SHEET1_XML, SHEET1_RELS,
                 DRAWING1_XML, DRAWING1_RELS} \subseteq DOMAIN zf
            /\ zf[SHEET1_XML].drawing = "rId1"
            /\ zf[SHEET1_RELS].rels = StdSheetRels
    IN  IF ~linked THEN 0
        ELSE Cardinality(
               {i \in 1..Len(zf[DRAWING1_XML].anchors) :
                   LET el == zf[DRAWING1_XML].anchors[i] IN
                   /\ IsPicture(el)
                   /\ \E rel \in Range(zf[DRAWING1_RELS].rels) :
                         rel.Id = el.embed /\ rel.Target # <<>>
                   /\ ColumnName(ColOf(el) + 1) = Upper(imageColumn)})

\* The rows of the report that come from the upload at position i
RowsFrom(rows, i) ==
    Cardinality({k \in 1..Len(rows) : rows[k].source_file = OriginalName(files[i])})

\* The uploads of the request with the same name as the one at position i
\* hold this many pictures together
PicturesNamedLike(i) ==
    LET same == {j \in 1..Len(files) : files[j].filename = files[i].filename}
        RECURSIVE Sum(_)
        Sum(S) == IF S = {} THEN 0
                  ELSE LET j == CHOOSE j \in S : TRUE
                       IN  PictureCount(files[j].contents) + Sum(S \ {j})
    IN  Sum(same)

NoPictureAtAll == \A i \in 1..Len(files) : PictureCount(files[i].contents) = 0

\* C19: the request is answered "No images found" only when no upload holds
\* a picture in the image column, and then every upload has been gone
\* through; when it is answered with the archive, every upload has been gone
\* through, the uploads without pictures are left out and every other upload
\* - those after an upload without pictures too - has all its pictures in the
\* report and in the archive.
C19_EmptyFileIsSkipped ==
    pPc = "done" =>
        /\ response.detail = "No images found" =>
              (handled = Len(files) /\ NoPictureAtAll /\ response.status = 400)
        /\ (handled = Len(files) /\ ~NoPictureAtAll) => response.status = 200
        /\ response.status = 200 =>
              /\ handled = Len(files)
              /\ Len(response.entries) = Len(response.report)
              /\ \A i \in 1..Len(files) :
                    RowsFrom(response.report, i) = PicturesNamedLike(i)

\* A workbook without drawing, then one with pictures only in another
\* column, then one with two pictures in B: the third is in the report
C19_Witness ==
    /\ pPc = "done" /\ response.status = 200
    /\ Len(files) = 3
    /\ files[1].contents = WbNoDrawing
    /\ files[2].contents = WbOtherColumn
    /\ files[3].contents = WbTwo
    /\ Len(response.report) = 2
    /\ \A k \in 1..2 : response.report[k].source_file = XlsxName("a")

(***************************************************************************)
(* Specification of the drawing parser: _parse_anchored_images applied to  *)
(* drawings whose anchor elements are every sequence, up to a length, of   *)
(* the elements below.                                                     *)
(***************************************************************************)
MaxParseAnchors == 3

ParseShapes ==
    {Pic("twoCellAnchor", 2, 1, "rId1"), Pic("oneCellAnchor", 4, 1, "rId2"),
     Pic("oneCellAnchor", 2, 3, "rId1"),
     \* a shape that is no picture; a picture without <row> and <col>
     AnchorEl("twoCellAnchor", TRUE, 6, 1, FALSE, FALSE, NoEmbed),
     AnchorEl("twoCellAnchor", TRUE, NoChild, NoChild, TRUE, TRUE, "rId3")}

ParseArchives ==
    {BaseZf @@ (DRAWING1_XML :> DrawingPart(anchors)) :
        anchors \in SeqsUpTo(ParseShapes, MaxParseAnchors)}

ParseAnchors ==
    /\ navOut.err = "not-called"
    /\ navOut' = _parse_anchored_images(navZf, DRAWING1_XML)
    /\ UNCHANGED <<release, hookVars, authVars, dbVars, ipVars,
                   seqVars, normVars, procVars, colVars, pathVars, navZf, exVars>>

InitParse ==
    /\ release = "lookup"
    /\ SeqIdle
    /\ HookIdle
    /\ AuthIdle
    /\ DbIdle
    /\ IpIdle
    /\ ProcIdle
    /\ NormIdle
    /\ ColIdle
    /\ PathIdle
    /\ navZf \in ParseArchives
    /\ navOut = NotCalled
    /\ ExIdle

NextParse == ParseAnchors

SpecParse == InitParse /\ [][NextParse]_vars

\* The picture anchors of the drawing as (row, col, embed), in the order of
\* the document; those of one tag
ParsedEls == navZf[DRAWING1_XML].anchors
Triple(el) == <<RowOf(el), ColOf(el), el.embed>>
InDocumentOrder ==
    LET pics == SelectSeq(ParsedEls, IsPicture)
    IN  [i \in 1..Len(pics) |-> Triple(pics[i])]
InDocumentOrderOf(tag) ==
    LET IsTagged(el) == IsPicture(el) /\ el.tag = tag
        pics == SelectSeq(ParsedEls, IsTagged)
    IN  [i \in 1..Len(pics) |-> Triple(pics[i])]

\* A one-cell picture anchor stands before a two-cell picture anchor
OneCellBeforeTwoCell ==
    \E i, j \in 1..Len(ParsedEls) :
        /\ i < j
        /\ IsPicture(ParsedEls[i]) /\ ParsedEls[i].tag = "oneCellAnchor"
        /\ IsPicture(ParsedEls[j]) /\ ParsedEls[j].tag = "twoCellAnchor"

ParseCalled == navOut.err # "not-called"

\* C20 as stated: _parse_anchored_images returns the picture anchors in the
\* order their elements appear in the drawing, for every interleaving of
\* two-cell and one-cell anchors.
C20_Original == ParseCalled => navOut.val = InDocumentOrder

\* C20 amended: it returns the two-cell picture anchors in document order,
\* followed by the one-cell picture anchors in document order; this is the
\* document order of all picture anchors whenever no one-cell picture anchor
\* stands before a two-cell picture anchor.
C20_TwoCellThenOneCell ==
    ParseCalled =>
        /\ navOut.err = ""
        /\ navOut.val = InDocumentOrderOf("twoCellAnchor") \o InDocumentOrderOf("oneCellAnchor")
        /\ ~OneCellBeforeTwoCell => navOut.val = InDocumentOrder

C20_Witness ==
    /\ navOut.err = ""
    /\ ParsedEls = <<Pic("oneCellAnchor", 4, 1, "rId2"), Pic("twoCellAnchor", 2, 1, "rId1"),
                     Pic("oneCellAnchor", 2, 3, "rId1")>>
    /\ navOut.val = <<<<2, 1, "rId1">>, <<4, 1, "rId2">>, <<2, 3, "rId1">>>>


(***************************************************************************)
(* Anchors at the same row.                                                *)
(***************************************************************************)
\* The images of the surviving anchors of one tag at a zero-based row, in
\* document order
ImagesAt(tag, r) ==
    LET at == SelectSeq([i \in 1..Len(DocAnchors) |-> i],
                        LAMBDA i : /\ i \in Survivors
                                   /\ RowOf(DocAnchors[i]) = r
                                   /\ DocAnchors[i].tag \in tag)
    IN  [k \in 1..Len(at) |-> Zf[MediaPathOf(DocAnchors[at[k]])].data]

\* The images of the records at a row, in the order of the output
RecordImagesAt(r) ==
    LET at == SelectSeq(Records, LAMBDA rec : rec.row = r + 1)
    IN  [k \in 1..Len(at) |-> at[k].image_bytes.data]

AnchorTags == {"twoCellAnchor", "oneCellAnchor"}
TiedRows == {RowOf(DocAnchors[i]) : i \in Survivors}

\* The whole list came back: extract_images_details, or the other function
\* without a soft limit
WholeList ==
    /\ exPc = "returned"
    /\ call.entry = "details" \/ (call.entry = "with_total" /\ call.limit <= 0)
    /\ HasLinkedDrawing /\ ValidLetters

\* C21 as stated: the records of the anchors at one row are in the order in
\* which the anchors appear in the drawing document.
C21_Original ==
    WholeList => \A r \in TiedRows : RecordImagesAt(r) = ImagesAt(AnchorTags, r)

\* C21 amended: the records of the anchors at one row are in the order of the
\* parsed list: those of the two-cell anchors in document order, then those
\* of the one-cell anchors in document order.
C21_TiesInParsedOrder ==
    WholeList =>
        \A r \in TiedRows :
            RecordImagesAt(r) =
                ImagesAt({"twoCellAnchor"}, r) \o ImagesAt({"oneCellAnchor"}, r)

\* A one-cell picture before two two-cell pictures, all at B3: the two-cell
\* ones come first, in their document order
C21_Witness ==
    /\ exPc = "returned" /\ call.entry = "details"
    /\ DocAnchors = <<Pic("oneCellAnchor", 2, 1, "rId2"), Pic("twoCellAnchor", 2, 1, "rId3"),
                      Pic("twoCellAnchor", 2, 1, "rId1")>>
    /\ RecordImagesAt(2) = <<"img3", "img1", "img2">>


(***************************************************************************)
(* The moment of the cap check.                                            *)
(***************************************************************************)
\* The records built so far each carry a name and the bytes read for it
RecordsBuilt ==
    \A k \in 1..Len(results) :
        IF call.entry = "by_column"
        THEN results[k].filename # <<>> /\ results[k].png_bytes.data # ""
        ELSE results[k].image_bytes.data # ""

\* C22: when TooManyImages is raised, exactly max_images + 1 records have
\* been built, each with its name and its image bytes read; while the loop
\* of a capped call goes on, no more than max_images have been.
C22_RaisedAfterOneTooMany ==
    call.entry \in {"details", "by_column"} =>
        /\ exRet.err = "TooManyImages" =>
              /\ call.limit > 0
              /\ Len(results) = call.limit + 1
              /\ RecordsBuilt
        /\ (exPc = "loop" /\ call.limit > 0) => Len(results) <= call.limit

\* A cap of 2 and three pictures in B: raised with three records built
C22_Witness ==
    /\ exPc = "raised" /\ exRet.err = "TooManyImages"
    /\ call.entry = "details" /\ call.limit = 2
    /\ Len(filtered) = 3
    /\ Len(results) = 3
    /\ results[3].row = 7


(***************************************************************************)
(* Anchors that are skipped or dropped.                                    *)
(***************************************************************************)
\* An anchor the parser skips, or one the join drops
SkippedOrDropped(el) ==
    \/ ~el.hasFrom \/ ~el.hasPic \/ ~el.hasBlip \/ el.embed = NoEmbed
    \/ \A rel \in DocRels : rel.Id # el.embed

\* The package of the call with those anchors taken out of the drawing
WithoutSkipped ==
    LET left == SelectSeq(DocAnchors, LAMBDA el : ~SkippedOrDropped(el))
    IN  [zf |-> [q \in DOMAIN Zf |->
                    IF q = DRAWING1_XML THEN DrawingPart(left) ELSE Zf[q]],
         ws |-> Ws]

\* extract_images_details on the package without those anchors
DetailsWithoutSkipped ==
    extract_images_details(WithoutSkipped, call.image_col_letter,
                           call.name_col_letter, call.limit, release)

\* C23: a call of extract_images_details on a drawing with anchors that lack
\* a <from>, a picture, a blip or an embed id, or whose embed id is not in
\* the drawing's relationship map, ends as the same call on the drawing
\* without those anchors does: no error comes from them, and the records are
\* those of the other anchors.
C23_SkippedAnchorsLeaveNoTrace ==
    (Finished /\ call.entry = "details" /\ HasLinkedDrawing) =>
        /\ exRet.err = DetailsWithoutSkipped.err
        /\ exRet.err = "" => exRet.val = DetailsWithoutSkipped.val

\* A shape without a picture between two pictures: the two pictures are the
\* records, in row order
C23_Witness ==
    /\ exPc = "returned" /\ call.entry = "details"
    /\ DocAnchors = <<Pic("twoCellAnchor", 4, 1, "rId1"),
                      AnchorEl("oneCellAnchor", TRUE, 2, 1, FALSE, FALSE, NoEmbed),
                      Pic("oneCellAnchor", 2, 1, "rId2")>>
    /\ Len(Records) = 2
    /\ Records[1].row = 3 /\ Records[1].image_bytes.data = "img2"
    /\ Records[2].row = 5 /\ Records[2].image_bytes.data = "img1"


(***************************************************************************)
(* Anchors whose <from> lacks the <row> or the <col>.                      *)
(***************************************************************************)
\* The picture anchors of the drawing whose relationship id resolves
Resolvable ==
    {i \in 1..Len(DocAnchors) :
        IsPicture(DocAnchors[i]) /\ \E rel \in DocRels : rel.Id = DocAnchors[i].embed}

\* A record at this one-based row carries the image of the anchor
EmittedAt(el, row) ==
    \E k \in 1..Len(Records) :
        Records[k].row = row /\ Records[k].image_bytes = StoredImage(el)

\* The image column of the call is A; it is the column the anchor names
ImageColumnIsA == Upper(Strip(call.image_col_letter)) = <<"A">>
InImageColumn(el) ==
    IF el.col = NoChild THEN ImageColumnIsA
    ELSE ColumnName(el.col + 1) = Upper(Strip(call.image_col_letter))

\* C24: a picture anchor without <col> is emitted when the image column is A
\* and not otherwise, a picture anchor without <row> that is in the image
\* column is emitted at row 1 (named after cell row 1), and the records are
\* as many as the picture anchors in the image column, a missing <col>
\* counting as column A.
C24_MissingRowOrColIsZero ==
    (exPc = "returned" /\ call.entry = "details" /\ HasLinkedDrawing /\ ValidLetters) =>
        /\ Len(Records) = Cardinality({i \in Resolvable : InImageColumn(DocAnchors[i])})
        /\ \A i \in Resolvable :
              LET el == DocAnchors[i] IN
              /\ (el.col = NoChild /\ ImageColumnIsA) =>
                    EmittedAt(el, IF el.row = NoChild THEN 1 ELSE el.row + 1)
              /\ (el.row = NoChild /\ InImageColumn(el)) => EmittedAt(el, 1)

\* A picture without <row> and <col> alone in the drawing, image column A:
\* one record at row 1 with the fallback name of row 1
C24_Witness ==
    /\ exPc = "returned" /\ call.entry = "details"
    /\ call.image_col_letter = <<"A">>
    /\ DocAnchors = <<Pic("twoCellAnchor", NoChild, NoChild, "rId1")>>
    /\ Len(Records) = 1
    /\ Records[1].row = 1
    /\ Records[1].name_raw = IMAGE_ROW \o <<"1">>
    /\ Records[1].image_bytes.data = "img1"


(***************************************************************************)
(* ImageProcessor (services/image_processor.py): one instance, whose       *)
(* process_excel_file is called once for each upload of the request, in    *)
(* order, the caller collecting the lists it returns.                      *)
(***************************************************************************)
\* The fields of the instance and the local processed_items
Fields(tot, saved, dup, names, items) ==
    [total_images |-> tot, saved_count |-> saved, duplicate_count |-> dup,
     seen_names |-> names, processed_items |-> items]

FinalNameOf(item) == normalize(item.name_raw) \o <<".">> \o detect_extension(item.image_bytes)

\* Mutant of ProcessedItem: a name counts as seen only if the item before
\* had it.
ProcessedItem_LastOnly(f, original_name, item) ==
    LET final_name == FinalNameOf(item)
        n == Len(f.processed_items)
        dup == n > 0 /\ f.processed_items[n].final_name = final_name
    IN  Fields(f.total_images + 1,
               IF dup THEN f.saved_count ELSE f.saved_count + 1,
               IF dup THEN f.duplicate_count + 1 ELSE f.duplicate_count,
               f.seen_names \cup {final_name},
               Append(f.processed_items,
                      [final_name |-> final_name, image_bytes |-> item.image_bytes,
                       manifest_row |->
                           [source_file |-> original_name, sheet |-> item.sheet,
                            row |-> item.row, part_name |-> item.name_raw,
                            final_name |-> final_name,
                            action |-> IF dup THEN "Duplicate" ELSE "Saved"]]))

\* Mutant of ProcessedItem: a duplicate is not counted.
ProcessedItem_DuplicateUncounted(f, original_name, item) ==
    LET final_name == FinalNameOf(item)
        dup == final_name \in f.seen_names
    IN  Fields(f.total_images + 1,
               IF dup THEN f.saved_count ELSE f.saved_count + 1,
               f.duplicate_count,
               f.seen_names \cup {final_name},
               Append(f.processed_items,
                      [final_name |-> final_name, image_bytes |-> item.image_bytes,
                       manifest_row |->
                           [source_file |-> original_name, sheet |-> item.sheet,
                            row |-> item.row, part_name |-> item.name_raw,
                            final_name |-> final_name,
                            action |-> IF dup THEN "Duplicate" ELSE "Saved"]]))

\* The body of "for item in details" of process_excel_file
ProcessedItem(f, original_name, item) ==
    LET final_name == FinalNameOf(item)
        dup == final_name \in f.seen_names
    IN  Fields(f.total_images + 1,
               IF dup THEN f.saved_count ELSE f.saved_count + 1,
               IF dup THEN f.duplicate_count + 1 ELSE f.duplicate_count,
               f.seen_names \cup {final_name},
               Append(f.processed_items,
                      [final_name |-> final_name, image_bytes |-> item.image_bytes,
                       manifest_row |->
                           [source_file |-> original_name, sheet |-> item.sheet,
                            row |-> item.row, part_name |-> item.name_raw,
                            final_name |-> final_name,
                            action |-> IF dup THEN "Duplicate" ELSE "Saved"]]))

RECURSIVE ProcessedItems(_, _, _)
ProcessedItems(f, original_name, details) ==
    IF details = <<>> THEN f
    ELSE ProcessedItems(ProcessedItem(f, original_name, Head(details)),
                        original_name, Tail(details))

\* How a call ends, f the fields after its loop: the exception of the
\* extraction goes to the caller and nothing has changed; otherwise the
\* list is returned ("if not details: return []" returns the empty list)
ProcessExcelFileEnds(details, f) ==
    IF details.err # ""
    THEN /\ ipRet' = details.err
         /\ UNCHANGED <<self_total_images, saved_count, duplicate_count, seen_names,
                        processed_files>>
    ELSE /\ ipRet' = "returned"
         /\ self_total_images' = f.total_images
         /\ saved_count' = f.saved_count
         /\ duplicate_count' = f.duplicate_count
         /\ seen_names' = f.seen_names
         /\ processed_files' = Append(processed_files, f.processed_items)

process_excel_file(upload, details) ==
    ProcessExcelFileEnds(details,
        ProcessedItems(Fields(self_total_images, saved_count, duplicate_count,
                              seen_names, <<>>),
                       OriginalName(upload), details.val))

\* One call of process_excel_file, for the next upload of the request
ProcessExcelFile ==
    /\ calls < Len(files)
    /\ calls' = calls + 1
    /\ process_excel_file(files[calls + 1],
                          extract_images_details(files[calls + 1].contents, imageColumn,
                                                 nameColumn,
                                                 IF MAX_IMAGES > 0 THEN MAX_IMAGES ELSE 0,
                                                 release))
    /\ UNCHANGED <<release, hookVars, authVars, dbVars,
                   colVars, pathVars, navVars, exVars, seqVars, normVars,
                   procVars>>

(***************************************************************************)
(* Specification of a batch: the uploads of one request go through         *)
(* /process and through an ImageProcessor.                                 *)
(***************************************************************************)
BatchUploads ==
    {Upload(XlsxName("a"), 1, WbTwo), Upload(XlsxName("b"), 1, WbOne),
     Upload(XlsxName("e"), 1, WbNoDrawing), Upload(XlsxName("m"), 1, WbNoSheet),
     Upload(XlsxName("t"), 1, WbThree)}

InitBatch ==
    /\ release = "lookup"
    /\ SeqIdle
    /\ HookIdle
    /\ AuthIdle
    /\ DbIdle
    /\ NormIdle
    /\ ColIdle
    /\ PathIdle
    /\ NavIdle
    /\ ExIdle
    /\ files \in SeqsUpTo(BatchUploads, MaxFiles)
    /\ imageColumn \in {<<"B">>, <<"1">>}
    /\ nameColumn = <<"C">>
    /\ MAX_IMAGES \in {0, 2}
    /\ MAX_FILES = 0
    /\ pPc = "start"
    /\ handled = 0
    /\ total_images = 0
    /\ written = 0
    /\ overwritten_same = 0
    /\ overwritten_diff = 0
    /\ seen = <<>>
    /\ manifest_rows = <<>>
    /\ zip_entries = <<>>
    /\ response = NoResponse
    /\ calls = 0
    /\ self_total_images = 0
    /\ saved_count = 0
    /\ duplicate_count = 0
    /\ seen_names = {}
    /\ processed_files = <<>>
    /\ ipRet = "not-called"

NextBatch == ProcessValidate \/ ProcessUpload \/ ProcessRespond \/ ProcessExcelFile

SpecBatch == InitBatch /\ [][NextBatch]_vars


\* The manifest rows of the batch, in order: those of the lists the calls of
\* process_excel_file returned
RECURSIVE Flatten(_)
Flatten(lists) ==
    IF lists = <<>> THEN <<>>
    ELSE [k \in 1..Len(Head(lists)) |-> Head(lists)[k].manifest_row] \o Flatten(Tail(lists))

BatchRows == Flatten(processed_files)

\* No earlier row of the batch has the final name of row k
FirstOfItsName(rows, k) == \A j \in 1..(k - 1) : rows[j].final_name # rows[k].final_name

\* C25: a record of the batch is classified "Saved" (ImageProcessor) or
\* "written" (/process) exactly when no earlier record of the batch, of this
\* or of an earlier file, has the same final file name, and as a duplicate
\* ("Duplicate"; "overwritten_same" or "overwritten_diff") otherwise.
C25_FirstOccurrenceIsBatchWide ==
    /\ \A k \in 1..Len(BatchRows) :
          /\ BatchRows[k].action \in {"Saved", "Duplicate"}
          /\ BatchRows[k].action = "Saved" <=> FirstOfItsName(BatchRows, k)
    /\ \A k \in 1..Len(manifest_rows) :
          /\ manifest_rows[k].action \in {"written", "overwritten_same", "overwritten_diff"}
          /\ manifest_rows[k].action = "written" <=> FirstOfItsName(manifest_rows, k)

\* Two workbooks whose pictures at row 3 are both named p1: the record of
\* the second workbook is a duplicate, two records after the first p1
C25_Witness ==
    /\ calls = 2 /\ handled = 2
    /\ files[1].contents = WbTwo /\ files[2].contents = WbOne
    /\ Len(BatchRows) = 3 /\ Len(manifest_rows) = 3
    /\ BatchRows[1].action = "Saved" /\ BatchRows[2].action = "Saved"
    /\ BatchRows[3].action = "Duplicate"
    /\ BatchRows[3].source_file = XlsxName("b")
    /\ BatchRows[3].final_name = BatchRows[1].final_name
    /\ manifest_rows[3].action = "overwritten_diff"


\* The counters of /process add up in these locals
Balanced(t) == t.written + t.overwritten_same + t.overwritten_diff = t.total_images

\* The counters of the instance add up in these fields
Consistent(f) ==
    /\ f.total_images = f.saved_count + f.duplicate_count
    /\ f.saved_count = Cardinality(f.seen_names)

\* After each record of the upload that /process takes next
BalancedAfterEachRecord(original_name, details) ==
    details.err = "" =>
        \A n \in 0..Len(details.val) :
            Balanced(ItemsLoop(Tally(total_images, written, overwritten_same,
                                     overwritten_diff, seen, manifest_rows, zip_entries),
                               original_name, SubSeq(details.val, 1, n)))

\* After each record of the upload that process_excel_file is called with next
ConsistentAfterEachRecord(original_name, details) ==
    details.err = "" =>
        \A n \in 0..Len(details.val) :
            Consistent(ProcessedItems(Fields(self_total_images, saved_count,
                                             duplicate_count, seen_names, <<>>),
                                      original_name, SubSeq(details.val, 1, n)))

DetailsOfUpload(i) ==
    extract_images_details(files[i].contents, imageColumn, nameColumn,
                           IF MAX_IMAGES > 0 THEN MAX_IMAGES ELSE 0, release)

\* C26: after any sequence of process_excel_file calls, those that return no
\* image or raise included, total_images = saved_count + duplicate_count and
\* saved_count is the number of elements of seen_names; in /process,
\* written + overwritten_same + overwritten_diff = total_images; both hold
\* after every record as well, and the totals are the numbers of records.
C26_CountersAddUp ==
    /\ self_total_images = saved_count + duplicate_count
    /\ saved_count = Cardinality(seen_names)
    /\ self_total_images = Len(BatchRows)
    /\ written + overwritten_same + overwritten_diff = total_images
    /\ total_images = Len(manifest_rows)
    /\ calls < Len(files) =>
          ConsistentAfterEachRecord(OriginalName(files[calls + 1]), DetailsOfUpload(calls + 1))
    /\ (pPc = "loop" /\ handled < Len(files)) =>
          BalancedAfterEachRecord(OriginalName(files[handled + 1]),
                                  DetailsOfUpload(handled + 1))

\* The same workbook before and after one whose call raises: four records,
\* two saved and two duplicates; /process has taken the first workbook
C26_Witness ==
    /\ calls = 3
    /\ files[1].contents = WbTwo /\ files[2].contents = WbNoSheet
    /\ files[3].contents = WbTwo
    /\ ipRet = "returned"
    /\ self_total_images = 4 /\ saved_count = 2 /\ duplicate_count = 2
    /\ Cardinality(seen_names) = 2
    /\ handled = 1 /\ total_images = 2 /\ written = 2


(***************************************************************************)
(* The users table (auth/supabase_auth.py).  A row is [id, email, plan,    *)
(* stripe_customer_id, stripe_subscription_id, subscription_status]; id is *)
(* the primary key.  None is Python's None where a dict is expected,       *)
(* NoneValue a None in a column of strings.  dbFault names the             *)
(* operation that fails while the request is served: "select", "insert"    *)
(* (the statement raises), "insert-empty" (the row is written, no          *)
(* representation comes back), "update", or "none".                        *)
(***************************************************************************)
NoneValue == "None"

UserRow(id, email, plan, customer, subscription, status) ==
    [id |-> id, email |-> email, plan |-> plan, stripe_customer_id |-> customer,
     stripe_subscription_id |-> subscription, subscription_status |-> status]

\* What a call on the table gives: the value or the exception, and the table
DbOk(user, table) == [err |-> "", val |-> user, users |-> table]
DbRaise(err, table) == [err |-> err, val |-> None, users |-> table]

\* get_user_from_db: None without a client, on an exception of the select,
\* and when no row has the id
get_user_from_db(client, table, fault, user_id) ==
    IF ~client THEN None
    ELSE IF fault = "select" THEN None
    ELSE IF \E row \in table : row.id = user_id
    THEN CHOOSE row \in table : row.id = user_id
    ELSE None

\* The insert of create_user_if_not_exists: the primary key is not null and
\* unique; an empty response raises HTTPException inside the try
InsertUser(table, fault, user_data) ==
    IF fault = "insert" THEN DbRaise("HTTPException", table)
    ELSE IF user_data.id = NoneValue \/ \E row \in table : row.id = user_data.id
    THEN DbRaise("HTTPException", table)
    ELSE IF fault = "insert-empty"
    THEN DbRaise("HTTPException", table \cup {user_data})
    ELSE DbOk(user_data, table \cup {user_data})

\* create_user_if_not_exists: every exception leaves as HTTPException(500)
create_user_if_not_exists(client, table, fault, user_id, email) ==
    IF ~client THEN DbRaise("HTTPException", table)
    ELSE IF get_user_from_db(client, table, fault, user_id) # None
    THEN DbOk(get_user_from_db(client, table, fault, user_id), table)
    ELSE InsertUser(table, fault,
                    UserRow(user_id, email, "free", NoneValue, NoneValue, "inactive"))

(***************************************************************************)
(* AuthMiddleware (auth/middleware.py).  The Authorization header is       *)
(* absent (None), empty (<<>>), or [scheme, jwt]: the text before the      *)
(* token ("Bearer ", "bearer ", or nothing) and the token, which is        *)
(* garbage or a signed set of claims [sig, aud, exp, sub, email].          *)
(***************************************************************************)
PROCESS == <<"/", "p", "r", "o", "c", "e", "s", "s">>
protected_paths == {PROCESS}

\* s.startswith(prefix)
StartsWith(s, prefix) ==
    Len(s) >= Len(prefix) /\ SubSeq(s, 1, Len(prefix)) = prefix

Token(sig, aud, exp, sub, email) ==
    [sig |-> sig, aud |-> aud, exp |-> exp, sub |-> sub, email |-> email]

Garbage == Token("none", "", "", NoneValue, NoneValue)

\* jwt.decode(token, secret, algorithms=["HS256"], audience="authenticated"):
\* the claims, or JWTError
jwt_decode(token) ==
    IF token.sig = "good" /\ token.aud = "authenticated" /\ token.exp = "fresh"
    THEN [err |-> "", val |-> token]
    ELSE [err |-> "JWTError", val |-> Garbage]

\* The header without its 'Bearer ' prefix: with any other text in front the
\* whole header is decoded, and is no token
WithoutBearer(header) ==
    IF header.scheme \in {"Bearer ", ""} THEN header.jwt ELSE Garbage

\* Mutant of verify_supabase_jwt: the claims are returned unverified.
verify_supabase_jwt_Unverified(header, secret) ==
    IF header \in {None, <<>>} \/ ~secret THEN None
    ELSE [user_id |-> WithoutBearer(header).sub, email |-> WithoutBearer(header).email,
          role |-> "authenticated"]

verify_supabase_jwt(header, secret) ==
    IF header \in {None, <<>>} \/ ~secret THEN None
    ELSE IF jwt_decode(WithoutBearer(header)).err # "" THEN None
    ELSE [user_id |-> jwt_decode(WithoutBearer(header)).val.sub,
          email |-> jwt_decode(WithoutBearer(header)).val.email,
          role |-> "authenticated"]

Unauthenticated == [user |-> None, authenticated |-> FALSE]

\* request.state after the try block, created what create_user_if_not_exists
\* gave: user, authenticated and user_id are set once it returned, and the
\* except clause only logs
UserContext(created) ==
    /\ users' = created.users
    /\ request_state' =
           IF created.err # "" THEN Unauthenticated
           ELSE [user |-> created.val, authenticated |-> TRUE, user_id |-> created.val.id]

\* The statements of dispatch on a protected path, user_info what
\* verify_supabase_jwt returned (it is not called without a header)
Authenticate(user_info) ==
    IF auth_header \in {None, <<>>} \/ user_info = None
    THEN request_state' = Unauthenticated /\ UNCHANGED users
    ELSE UserContext(create_user_if_not_exists(supabase, users, dbFault,
                                               user_info.user_id, user_info.email))

IsProtected(p) == \E prefix \in protected_paths : StartsWith(p, prefix)

\* AuthMiddleware.dispatch, up to and including call_next(request)
Dispatch ==
    /\ ~forwarded
    /\ forwarded' = TRUE
    /\ IF ~IsProtected(url_path)
       THEN UNCHANGED <<request_state, users>>
       ELSE Authenticate(IF auth_header \in {None, <<>>} THEN None
                         ELSE verify_supabase_jwt(auth_header, SUPABASE_JWT_SECRET))
    /\ UNCHANGED <<release, colVars, pathVars, navVars, exVars, seqVars, normVars,
                   procVars, ipVars, hookVars, supabase, dbFault, url_path,
                   auth_header, SUPABASE_JWT_SECRET>>

\* is_authenticated(request): getattr(request.state, "authenticated", False)
is_authenticated ==
    IF "authenticated" \in DOMAIN request_state THEN request_state.authenticated ELSE FALSE

\* get_current_user(request): getattr(request.state, "user", None)
get_current_user ==
    IF "user" \in DOMAIN request_state THEN request_state.user ELSE None

HEALTH == <<"/", "h", "e", "a", "l", "t", "h">>
Paths == {PROCESS, PROCESS \o <<"/", "x">>, PROCESS \o <<"i", "n", "g">>, HEALTH}

UserIds == {"u1", "u2"}
Tokens ==
    {Garbage}
        \cup {Token("good", "authenticated", "fresh", sub, email) :
                sub \in UserIds \cup {NoneValue}, email \in {"a@x", NoneValue}}
        \cup {Token("bad", "authenticated", "fresh", "u1", "a@x"),
              Token("good", "anon", "fresh", "u1", "a@x"),
              Token("good", "authenticated", "expired", "u1", "a@x")}
Headers ==
    {None, <<>>} \cup {[scheme |-> s, jwt |-> t] : s \in {"Bearer ", "bearer ", ""}, t \in Tokens}
AuthFaults == {"none", "select", "insert", "insert-empty"}

\* A request arrives: a fresh request.state, nothing forwarded yet
Arrives ==
    /\ url_path' \in Paths
    /\ auth_header' \in Headers
    /\ dbFault' \in AuthFaults
    /\ request_state' = <<>>
    /\ forwarded' = FALSE

\* The next request, after the last one was forwarded
NextRequest ==
    /\ forwarded
    /\ Arrives
    /\ UNCHANGED <<release, colVars, pathVars, navVars, exVars, seqVars, normVars,
                   procVars, ipVars, hookVars, supabase, users, SUPABASE_JWT_SECRET>>

InitAuth ==
    /\ release = "lookup"
    /\ SeqIdle /\ HookIdle /\ IpIdle /\ ProcIdle
    /\ NormIdle /\ ColIdle /\ PathIdle /\ NavIdle /\ ExIdle
    /\ supabase \in BOOLEAN
    /\ SUPABASE_JWT_SECRET \in BOOLEAN
    /\ users \in {{}, {UserRow("u1", "a@x", "pro", "cus_1", "sub_1", "active")}}
    /\ url_path \in Paths
    /\ auth_header \in Headers
    /\ dbFault \in AuthFaults
    /\ request_state = <<>>
    /\ forwarded = FALSE

NextAuth == Dispatch \/ NextRequest

SpecAuth == InitAuth /\ [][NextAuth]_vars


\* Whether the JWT of the request verifies: a header, a configured secret,
\* and a token jwt.decode accepts
JwtVerifies ==
    /\ auth_header \notin {None, <<>>}
    /\ SUPABASE_JWT_SECRET
    /\ jwt_decode(WithoutBearer(auth_header)).err = ""

\* Whether setting up the user context of the request completes
UserContextCompletes ==
    create_user_if_not_exists(supabase, users, dbFault,
                              WithoutBearer(auth_header).sub,
                              WithoutBearer(auth_header).email).err = ""

\* A step of dispatch on a protected path
DispatchedProtected == ~forwarded /\ forwarded' /\ IsProtected(url_path)

\* The user authentication attaches: the row of the token's subject
SubjectAttached ==
    /\ request_state'.user \in users'
    /\ request_state'.user.id = WithoutBearer(auth_header).sub
    /\ request_state'.user_id = WithoutBearer(auth_header).sub

C27_WitnessAuthenticated ==
    /\ forwarded /\ url_path = PROCESS \o <<"i", "n", "g">>
    /\ is_authenticated
    /\ auth_header \notin {None, <<>>}
    /\ auth_header.scheme = ""
    /\ get_current_user = UserRow("u2", NoneValue, "free", NoneValue, NoneValue, "inactive")


(***************************************************************************)
(* The webhook of billing/webhooks.py.  A request body is [kind, value]:   *)
(* bytes that are not UTF-8 ("not-utf8"), text that is not JSON            *)
(* ("not-json"), a JSON value that is no object ("array"), or a JSON       *)
(* object ("object"), whose value is the record of its members.            *)
(***************************************************************************)
Body(kind, value) == [kind |-> kind, value |-> value]

\* What a handler leaves: the exception, if any, and the users table
Handled(table) == [err |-> "", users |-> table]
HandlerRaise(err, table) == [err |-> err, users |-> table]

\* price_to_plan.get(price_id, 'free')
price_to_plan(price_id) ==
    CASE price_id = "price_basic_monthly" -> "basic"
      [] price_id = "price_pro_monthly" -> "pro"
      [] price_id = "price_pro_plus_monthly" -> "pro_plus"
      [] OTHER -> "free"

\* subscription.get('items', {}).get('data', [])
ItemsData(subscription) ==
    IF "items" \in DOMAIN subscription /\ "data" \in DOMAIN subscription.items
    THEN subscription.items.data
    ELSE <<>>

\* items[0].get('price', {}).get('id', '')
PriceId(item) ==
    IF "price" \in DOMAIN item /\ "id" \in DOMAIN item.price THEN item.price.id ELSE ""

get_plan_from_subscription(subscription) ==
    IF "metadata" \in DOMAIN subscription /\ "plan" \in DOMAIN subscription.metadata
    THEN subscription.metadata.plan
    ELSE IF ItemsData(subscription) # <<>>
    THEN price_to_plan(PriceId(ItemsData(subscription)[1]))
    ELSE "free"

\* The rows after UPDATE users SET ... WHERE stripe_customer_id = customer_id
UpdatedRows(table, customer_id, subscription_id, plan, status) ==
    {IF row.stripe_customer_id = customer_id
     THEN [row EXCEPT !.plan = plan, !.stripe_subscription_id = subscription_id,
                      !.subscription_status = status]
     ELSE row : row \in table}

\* update_user_subscription: without a client it logs and returns; an
\* exception of the update is logged and raised again
update_user_subscription(client, table, fault, customer_id, subscription_id, plan, status) ==
    IF ~client THEN Handled(table)
    ELSE IF fault = "update" THEN HandlerRaise("Exception", table)
    ELSE Handled(UpdatedRows(table, customer_id, subscription_id, plan, status))

\* handle_subscription_created and handle_subscription_updated, which differ
\* in what they log
handle_subscription_created(client, table, fault, subscription) ==
    IF ~({"customer", "id", "status"} \subseteq DOMAIN subscription)
    THEN HandlerRaise("KeyError", table)
    ELSE IF get_plan_from_subscription(subscription) = ""
    THEN Handled(table)
    ELSE update_user_subscription(client, table, fault, subscription.customer,
                                  subscription.id,
                                  get_plan_from_subscription(subscription),
                                  subscription.status)

handle_subscription_updated(client, table, fault, subscription) ==
    handle_subscription_created(client, table, fault, subscription)

\* Mutant of handle_subscription_deleted: the subscription id is kept.
handle_subscription_deleted_KeepsId(client, table, fault, subscription) ==
    IF ~({"customer", "id"} \subseteq DOMAIN subscription)
    THEN HandlerRaise("KeyError", table)
    ELSE update_user_subscription(client, table, fault, subscription.customer,
                                  subscription.id, "free", "cancelled")

handle_subscription_deleted(client, table, fault, subscription) ==
    IF ~({"customer", "id"} \subseteq DOMAIN subscription)
    THEN HandlerRaise("KeyError", table)
    ELSE update_user_subscription(client, table, fault, subscription.customer,
                                  NoneValue, "free", "cancelled")

\* handle_payment_succeeded and handle_payment_failed read two members and log
handle_payment_succeeded(client, table, fault, invoice) ==
    IF ~({"customer", "subscription"} \subseteq DOMAIN invoice)
    THEN HandlerRaise("KeyError", table)
    ELSE Handled(table)

handle_payment_failed(client, table, fault, invoice) ==
    handle_payment_succeeded(client, table, fault, invoice)

\* The dispatch of process_paypal_webhook_event on event['type']
DispatchEvent(client, table, fault, event_type, data) ==
    CASE event_type = "customer.subscription.created" ->
             handle_subscription_created(client, table, fault, data)
      [] event_type = "customer.subscription.updated" ->
             handle_subscription_updated(client, table, fault, data)
      [] event_type = "customer.subscription.deleted" ->
             handle_subscription_deleted(client, table, fault, data)
      [] event_type = "invoice.payment_succeeded" ->
             handle_payment_succeeded(client, table, fault, data)
      [] event_type = "invoice.payment_failed" ->
             handle_payment_failed(client, table, fault, data)
      [] OTHER -> Handled(table)

\* process_paypal_webhook_event: event['type'] and event['data']['object']
\* are read before the dispatch
process_paypal_webhook_event(client, table, fault, event) ==
    IF "type" \notin DOMAIN event THEN HandlerRaise("KeyError", table)
    ELSE IF "data" \notin DOMAIN event \/ "object" \notin DOMAIN event.data
    THEN HandlerRaise("KeyError", table)
    ELSE DispatchEvent(client, table, fault, event.type, event.data.object)

\* The answer of handle_paypal_webhook for what the processing left
Answer(processed) ==
    [ret |-> IF processed.err = "" THEN "success" ELSE "500", users |-> processed.users]

\* handle_paypal_webhook: body.decode('utf-8') raises UnicodeDecodeError, which
\* is no JSONDecodeError; event_data.get raises AttributeError on a JSON
\* value that is no object
handle_paypal_webhook(client, table, fault, request_body) ==
    IF request_body.kind = "not-utf8" THEN [ret |-> "500", users |-> table]
    ELSE IF request_body.kind = "not-json" THEN [ret |-> "400", users |-> table]
    ELSE IF request_body.kind # "object" THEN [ret |-> "500", users |-> table]
    ELSE Answer(process_paypal_webhook_event(client, table, fault, request_body.value))

Customers == {"cus_1", "cus_2"}
HandledTypes ==
    {"customer.subscription.created", "customer.subscription.updated",
     "customer.subscription.deleted", "invoice.payment_succeeded",
     "invoice.payment_failed"}

\* Stripe's event envelope
Event(type, object) == [type |-> type, data |-> [object |-> object]]

Subscriptions ==
    {[customer |-> c, id |-> "sub_2", status |-> st, metadata |-> [plan |-> p]] :
        c \in Customers, st \in {"active", "past_due"}, p \in {"basic", ""}}
        \cup {[customer |-> c, id |-> "sub_3", status |-> "active",
               items |-> [data |-> <<[price |-> [id |-> pr]]>>]] :
                c \in Customers, pr \in {"price_pro_monthly", "price_unknown"}}
        \cup {[customer |-> c, id |-> "sub_4", status |-> "trialing"] : c \in Customers}
        \cup {[customer |-> c, id |-> "sub_1"] : c \in Customers \cup {"cus_9"}}
        \cup {[id |-> "sub_1", status |-> "active"]}
Invoices ==
    {[customer |-> c, subscription |-> "sub_1"] : c \in Customers} \cup {[customer |-> "cus_1"]}

\* The events PayPal sends: an event_type and a resource
PayPalEvents ==
    {[event_type |-> t, resource |-> [id |-> "I-1", status |-> "CANCELLED"]] :
        t \in {"BILLING.SUBSCRIPTION.CANCELLED", "PAYMENT.SALE.COMPLETED"}}

Bodies ==
    {Body("not-utf8", <<>>), Body("not-json", <<>>), Body("array", <<>>)}
        \cup {Body("object", ev) : ev \in PayPalEvents}
        \cup {Body("object", Event(t, o)) :
                t \in HandledTypes \cup {"charge.refunded"}, o \in Subscriptions \cup Invoices}
        \cup {Body("object", [type |-> "charge.refunded"]),
              Body("object", [type |-> "charge.refunded", data |-> [id |-> "x"]]),
              Body("object", [id |-> "evt_1"])}

\* One request to the webhook endpoint, from the body to the answer
HandlePaypalWebhook ==
    /\ \E b \in Bodies, fault \in {"none", "update"} :
        /\ body' = b
        /\ dbFault' = fault
        /\ hookRet' = handle_paypal_webhook(supabase, users, fault, b).ret
        /\ users' = handle_paypal_webhook(supabase, users, fault, b).users
    /\ UNCHANGED <<release, colVars, pathVars, navVars, exVars, seqVars, normVars,
                   procVars, ipVars, authVars, supabase>>

HookTables ==
    {{},
     {UserRow("u1", "a@x", "pro", "cus_1", "sub_1", "active"),
      UserRow("u2", "b@x", "free", NoneValue, NoneValue, "inactive")},
     {UserRow("u1", "a@x", "basic", "cus_1", "sub_1", "past_due"),
      UserRow("u2", "b@x", "pro_plus", "cus_2", "sub_5", "active"),
      UserRow("u3", "c@x", "pro", "cus_2", "sub_6", "active")}}

InitHooks ==
    /\ release = "lookup"
    /\ SeqIdle /\ AuthIdle /\ IpIdle /\ ProcIdle
    /\ NormIdle /\ ColIdle /\ PathIdle /\ NavIdle /\ ExIdle
    /\ supabase \in BOOLEAN
    /\ users \in HookTables
    /\ dbFault = "none"
    /\ body = <<>>
    /\ hookRet = "not-called"

NextHooks == HandlePaypalWebhook

SpecHooks == InitHooks /\ [][NextHooks]_vars


\* Whether the body is valid JSON
ValidJson(b) == b.kind \in {"array", "object"}

\* Whether the body carries an event: an object with a type, under the name
\* PayPal gives it (read at line 39) or the name the dispatch reads
CarriesEvent(b) ==
    b.kind = "object" /\ ({"event_type", "type"} \cap DOMAIN b.value # {})

\* C28 as stated: every body that is valid JSON carrying an event is answered
\* {"status": "success"}, and the answer is 400 exactly when the body is not
\* valid JSON.
C28_SuccessForEveryEvent ==
    hookRet # "not-called" =>
        /\ CarriesEvent(body) => hookRet = "success"
        /\ hookRet = "400" <=> ~ValidJson(body)

\* Whether the last request was a processed event of the type for customer c
Processed(type, c) ==
    /\ hookRet = "success"
    /\ body.kind = "object"
    /\ "type" \in DOMAIN body.value
    /\ body.value.type = type
    /\ "customer" \in DOMAIN body.value.data.object
    /\ body.value.data.object.customer = c

Cancelled(row) ==
    /\ row.plan = "free"
    /\ row.stripe_subscription_id = NoneValue
    /\ row.subscription_status = "cancelled"

AllCustomers == Customers \cup {"cus_9"}

RowsOf(table, c) == {row \in table : row.stripe_customer_id = c}

\* C29 as stated: after a processed subscription-deleted event for customer
\* c every row of c is cancelled.
C29_Original ==
    \A c \in AllCustomers :
        Processed("customer.subscription.deleted", c) =>
            \A row \in RowsOf(users, c) : Cancelled(row)

\* C29: when the database client is configured, after a processed
\* subscription-deleted event for customer c every row of c has plan 'free',
\* no subscription id and status 'cancelled', whatever the table held, and
\* the rows of the other customers are as before; without a client the event
\* is acknowledged and no row changes.  Payment-succeeded and payment-failed
\* events change no row.
C29_DeletedCancelsWhenClientConfigured ==
    /\ [](supabase =>
            \A c \in AllCustomers :
                Processed("customer.subscription.deleted", c) =>
                    \A row \in RowsOf(users, c) : Cancelled(row))
    /\ [][/\ \A c \in AllCustomers :
                Processed("customer.subscription.deleted", c)' =>
                    /\ users' \ RowsOf(users', c) = users \ RowsOf(users, c)
                    /\ {row.id : row \in RowsOf(users', c)} = {row.id : row \in RowsOf(users, c)}
          /\ \A c \in AllCustomers :
                (\/ Processed("invoice.payment_succeeded", c)'
                 \/ Processed("invoice.payment_failed", c)') => users' = users
          /\ ~supabase => users' = users]_vars

\* C29 witness: after a created event gave u1 the plan of a price, a
\* deleted event for cus_2 cancelled both rows of cus_2 and left u1 alone.
C29_Witness ==
    /\ supabase
    /\ Processed("customer.subscription.deleted", "cus_2")
    /\ users = {UserRow("u1", "a@x", "pro", "cus_1", "sub_3", "active"),
                UserRow("u2", "b@x", "free", "cus_2", NoneValue, "cancelled"),
                UserRow("u3", "c@x", "free", "cus_2", NoneValue, "cancelled")}


\* C28 witness: an event as PayPal sends it is answered 500.
C28_Witness ==
    /\ hookRet = "500"
    /\ body.kind = "object"
    /\ DOMAIN body.value = {"event_type", "resource"}

\* What extract_images_details returns, without a cap, for the package and
\* the columns of the call
DetailsUncapped ==
    extract_images_details(call.xlsx_bytes, call.image_col_letter, call.name_col_letter,
                           0, release)

\* How many records before the i-th have its sanitized name
EarlierOfName(d, i) ==
    Cardinality({k \in 1..(i - 1) :
                    _sanitize_filename(d[k].name_raw) = _sanitize_filename(d[i].name_raw)})

\* The file name extract_images_by_column gives the anchor of the i-th record
FileNameOf(d, i) ==
    _sanitize_filename(d[i].name_raw)
        \o (IF EarlierOfName(d, i) = 0 THEN <<>>
            ELSE <<"_">> \o StrOfInt(EarlierOfName(d, i)))
        \o DOT_PNG

\* Whether the i-th entry of list comes from the anchor of the i-th record:
\* the picture of its media part, named after the cell of its row
SameAnchors(list, d) ==
    /\ Len(list) = Len(d)
    /\ \A i \in 1..Len(d) :
        /\ list[i].png_bytes.data = d[i].image_bytes.data
        /\ list[i].filename = FileNameOf(d, i)

WithTotalAgrees(d) ==
    /\ exRet.err = d.err
    /\ d.err = "" => exRet.val = <<d.val, Len(d.val)>>

ByColumnAgrees(d) ==
    d.err = "" => exRet.err = "" /\ SameAnchors(exRet.val, d.val)

AllDecodable(d) ==
    d.err = "" => \A i \in 1..Len(d.val) : d.val[i].image_bytes.format # "undecodable"

\* C30 as stated: for every package and column pair, the call without a soft
\* limit returns what extract_images_details without a cap returns, with the
\* length as total, and extract_images_by_column without a cap returns a list
\* of that length whose i-th entry comes from the anchor of the i-th record.
C30_EntryPointsAgree ==
    (Finished /\ call.limit = 0) =>
        /\ call.entry = "with_total" => WithTotalAgrees(DetailsUncapped)
        /\ call.entry = "by_column" => ByColumnAgrees(DetailsUncapped)

\* C30 witness: the records have an image no decoder reads, and
\* extract_images_by_column raised where extract_images_details returns.
C30_Witness ==
    /\ exPc = "raised" /\ call.entry = "by_column" /\ call.limit = 0
    /\ exRet.err = "UnidentifiedImageError"
    /\ DetailsUncapped.err = ""
    /\ Len(DetailsUncapped.val) = 3

\* The entry points agree on every package whose images in the column
\* decode, and extract_images_details_with_total agrees on every package.
C30_AgreeOnDecodableImages ==
    (Finished /\ call.limit = 0) =>
        /\ call.entry = "with_total" => WithTotalAgrees(DetailsUncapped)
        /\ (call.entry = "by_column" /\ AllDecodable(DetailsUncapped)) =>
                ByColumnAgrees(DetailsUncapped)

\* A package where all three agree: three pictures, two of one name
C30_AgreeWitness ==
    /\ exPc = "returned" /\ call.entry = "by_column" /\ call.limit = 0
    /\ Len(exRet.val) = 3
    /\ DetailsUncapped.err = ""
    /\ SameAnchors(exRet.val, DetailsUncapped.val)
    /\ EarlierOfName(DetailsUncapped.val, 2) = 1

=============================================================================
